---------------------------- MODULE Spec2Model ----------------------------
(***************************************************************************)
(* CommandVault (flow-command-vault): the launcher plugin (main.py), the   *)
(* template prompt (template_dialog.py), the GUI manager (manager.py) and  *)
(* the store's schema (db_init.py).                                        *)
(*                                                                         *)
(* Text is modelled as a sequence of one-character strings, so that        *)
(* splitting, partitioning, case folding, LIKE matching, index             *)
(* tokenisation and placeholder substitution are computed character by     *)
(* character as the code computes them.                                    *)
(***************************************************************************)
EXTENDS Integers, Sequences, FiniteSets, Bags, TLC

VARIABLES
    commands,      \* table commands: id -> row (db_init.py SCHEMA)
    commands_fts,  \* the FTS5 index: a bag of [rowid, cols] index rows
    seq,           \* sqlite_sequence of commands (AUTOINCREMENT high-water mark)
    fts_ok,        \* whether commands_fts and its triggers exist in the store
    now,           \* the store's clock, datetime('now')
    call,          \* the operation invoked last and its arguments
    ret,           \* what that operation returned or raised
    dialog         \* the manager's CommandDialog for an edit, while it is open

vars == <<commands, commands_fts, seq, fts_ok, now, call, ret, dialog>>

\* no CommandDialog is open
NoDialog == [open |-> FALSE]

-----------------------------------------------------------------------------
(* Text helpers: Python str methods used by the code.                      *)

UpperLetters == <<"A","B","C","D","E","F","G","H","I","J","K","L","M",
                  "N","O","P","Q","R","S","T","U","V","W","X","Y","Z">>
LowerLetters == <<"a","b","c","d","e","f","g","h","i","j","k","l","m",
                  "n","o","p","q","r","s","t","u","v","w","x","y","z">>
Digits == <<"0","1","2","3","4","5","6","7","8","9">>

Range(s) == {s[i] : i \in DOMAIN s}

\* str.lower() on one character
LowerChar(c) ==
    IF \E i \in DOMAIN UpperLetters : UpperLetters[i] = c
    THEN LowerLetters[CHOOSE i \in DOMAIN UpperLetters : UpperLetters[i] = c]
    ELSE c

\* str.lower()
Lower(s) == [i \in DOMAIN s |-> LowerChar(s[i])]

\* str.upper() on one character
UpperChar(c) ==
    IF \E i \in DOMAIN LowerLetters : LowerLetters[i] = c
    THEN UpperLetters[CHOOSE i \in DOMAIN LowerLetters : LowerLetters[i] = c]
    ELSE c

\* the characters str.split() and str.strip() treat as whitespace
IsSpace(c) == c \in {" ", "\t", "\n", "\r"}

\* s[i:] (1-based i)
Drop(s, i) == SubSeq(s, i, Len(s))

RECURSIVE LStrip(_)
LStrip(s) == IF s # <<>> /\ IsSpace(s[1]) THEN LStrip(Tail(s)) ELSE s

RECURSIVE RStrip(_)
RStrip(s) ==
    IF s # <<>> /\ IsSpace(s[Len(s)]) THEN RStrip(SubSeq(s, 1, Len(s) - 1)) ELSE s

\* str.strip()
Strip(s) == RStrip(LStrip(s))

\* str.split() without arguments: the maximal runs of non-whitespace
RECURSIVE SplitAcc(_, _, _, _)
SplitAcc(s, i, cur, acc) ==
    IF i > Len(s)
    THEN IF cur = <<>> THEN acc ELSE Append(acc, cur)
    ELSE IF IsSpace(s[i])
         THEN SplitAcc(s, i + 1, <<>>, IF cur = <<>> THEN acc ELSE Append(acc, cur))
         ELSE SplitAcc(s, i + 1, Append(cur, s[i]), acc)

Split(s) == SplitAcc(s, 1, <<>>, <<>>)

\* sep.join(parts)
RECURSIVE Join(_, _)
Join(parts, sep) ==
    IF parts = <<>> THEN <<>>
    ELSE IF Len(parts) = 1 THEN parts[1]
    ELSE parts[1] \o sep \o Join(Tail(parts), sep)

\* position of the first occurrence of character c in s, 0 when absent
FirstIndex(s, c) ==
    IF \E i \in DOMAIN s : s[i] = c
    THEN CHOOSE i \in DOMAIN s : s[i] = c /\ \A j \in 1..(i - 1) : s[j] # c
    ELSE 0

\* str.partition(":"): (head, sep, tail)
Partition(token) ==
    LET i == FirstIndex(token, ":")
    IN  IF i = 0
        THEN [head |-> token, sep |-> <<>>, tail |-> <<>>]
        ELSE [head |-> SubSeq(token, 1, i - 1), sep |-> <<":">>,
              tail |-> Drop(token, i + 1)]

\* needle in haystack (Python `in` on str)
Contains(hay, needle) ==
    \E i \in 1..(Len(hay) - Len(needle) + 1) :
        SubSeq(hay, i, i + Len(needle) - 1) = needle

\* str.replace(old, new), old non-empty: leftmost non-overlapping occurrences
RECURSIVE Replace(_, _, _)
Replace(s, old, new) ==
    IF Len(s) < Len(old) THEN s
    ELSE IF SubSeq(s, 1, Len(old)) = old
         THEN new \o Replace(Drop(s, Len(old) + 1), old, new)
         ELSE <<s[1]>> \o Replace(Tail(s), old, new)

\* a dict with key k set to v
Put(d, k, v) == [x \in (DOMAIN d) \cup {k} |-> IF x = k THEN v ELSE d[x]]

\* the empty dict
EmptyDict == [x \in {} |-> x]

-----------------------------------------------------------------------------
(* Query parser: main.py _parse_query.                                     *)

\* _OPERATORS: alias -> operator family; "none" stands for dict.get's None
OPERATORS(key) ==
    CASE key \in {<<"c","a","t">>, <<"c">>,
                  <<"c","a","t","e","g","o","r","y">>} -> "category"
      [] key \in {<<"s","u","b">>, <<"s">>,
                  <<"s","u","b","c","a","t","e","g","o","r","y">>} -> "subcategory"
      [] key \in {<<"t","a","g">>, <<"t">>} -> "tag"
      [] key \in {<<"f","a","v">>, <<"f">>,
                  <<"f","a","v","o","r","i","t","e">>,
                  <<"f","a","v","o","r","i","t","e","s">>} -> "favorites"
      [] OTHER -> "none"

\* the loop variables before the first token
ParseStart == [filters |-> EmptyDict, plain_tokens |-> <<>>]

\* an iteration that reads operators only ahead of the first plain word
ParseStepOperatorsLead(st, token) ==
    IF ":" \in Range(token) /\ st.plain_tokens = <<>>
    THEN LET p   == Partition(token)
             key == Strip(Lower(p.head))
             val == Strip(p.tail)
             op  == OPERATORS(key)
         IN  IF op = "favorites"
             THEN [st EXCEPT !.filters = Put(st.filters, "favorites", TRUE)]
             ELSE IF op # "none" /\ val # <<>>
                  THEN [st EXCEPT !.filters = Put(st.filters, op, val)]
                  ELSE [st EXCEPT !.plain_tokens = Append(st.plain_tokens, token)]
    ELSE [st EXCEPT !.plain_tokens = Append(st.plain_tokens, token)]

\* an iteration that keeps the first value of a family
ParseStepFirstWins(st, token) ==
    IF ":" \in Range(token)
    THEN LET p   == Partition(token)
             key == Strip(Lower(p.head))
             val == Strip(p.tail)
             op  == OPERATORS(key)
         IN  IF op = "favorites"
             THEN [st EXCEPT !.filters = Put(st.filters, "favorites", TRUE)]
             ELSE IF op # "none" /\ val # <<>>
                  THEN IF op \in DOMAIN st.filters THEN st
                       ELSE [st EXCEPT !.filters = Put(st.filters, op, val)]
                  ELSE [st EXCEPT !.plain_tokens = Append(st.plain_tokens, token)]
    ELSE [st EXCEPT !.plain_tokens = Append(st.plain_tokens, token)]

\* an iteration that drops the tokens whose key it does not know
ParseStepDropsUnknown(st, token) ==
    IF ":" \in Range(token)
    THEN LET p   == Partition(token)
             key == Strip(Lower(p.head))
             val == Strip(p.tail)
             op  == OPERATORS(key)
         IN  IF op = "favorites"
             THEN [st EXCEPT !.filters = Put(st.filters, "favorites", TRUE)]
             ELSE IF op # "none" /\ val # <<>>
                  THEN [st EXCEPT !.filters = Put(st.filters, op, val)]
                  ELSE IF op # "none"
                       THEN [st EXCEPT !.plain_tokens = Append(st.plain_tokens, token)]
                       ELSE st
    ELSE [st EXCEPT !.plain_tokens = Append(st.plain_tokens, token)]

\* an iteration that asks a value of the favorites operator as well
ParseStepFavoritesNeedValue(st, token) ==
    IF ":" \in Range(token)
    THEN LET p   == Partition(token)
             key == Strip(Lower(p.head))
             val == Strip(p.tail)
             op  == OPERATORS(key)
         IN  IF op = "favorites" /\ val # <<>>
             THEN [st EXCEPT !.filters = Put(st.filters, "favorites", TRUE)]
             ELSE IF op \notin {"none", "favorites"} /\ val # <<>>
                  THEN [st EXCEPT !.filters = Put(st.filters, op, val)]
                  ELSE [st EXCEPT !.plain_tokens = Append(st.plain_tokens, token)]
    ELSE [st EXCEPT !.plain_tokens = Append(st.plain_tokens, token)]

\* one iteration of the loop over raw.split()
ParseStepMissingValueCheck(st, token) ==
    IF ":" \in Range(token)
    THEN LET p   == Partition(token)
             key == Strip(Lower(p.head))
             val == Strip(p.tail)
             op  == OPERATORS(key)
         IN  IF op = "favorites"
             THEN [st EXCEPT !.filters = Put(st.filters, "favorites", TRUE)]
             ELSE IF op # "none"
                  THEN [st EXCEPT !.filters = Put(st.filters, op, val)]
                  ELSE [st EXCEPT !.plain_tokens = Append(st.plain_tokens, token)]
    ELSE [st EXCEPT !.plain_tokens = Append(st.plain_tokens, token)]

ParseStepFoldsValue(st, token) ==
    IF ":" \in Range(token)
    THEN LET p   == Partition(token)
             key == Strip(Lower(p.head))
             val == Strip(Lower(p.tail))
             op  == OPERATORS(key)
         IN  IF op = "favorites"
             THEN [st EXCEPT !.filters = Put(st.filters, "favorites", TRUE)]
             ELSE IF op # "none" /\ val # <<>>
                  THEN [st EXCEPT !.filters = Put(st.filters, op, val)]
                  ELSE [st EXCEPT !.plain_tokens = Append(st.plain_tokens, token)]
    ELSE [st EXCEPT !.plain_tokens = Append(st.plain_tokens, token)]

ParseStep(st, token) ==
    IF ":" \in Range(token)
    THEN LET p   == Partition(token)
             key == Strip(Lower(p.head))
             val == Strip(p.tail)
             op  == OPERATORS(key)
         IN  IF op = "favorites"
             THEN [st EXCEPT !.filters = Put(st.filters, "favorites", TRUE)]
             ELSE IF op # "none" /\ val # <<>>
                  THEN [st EXCEPT !.filters = Put(st.filters, op, val)]
                  ELSE [st EXCEPT !.plain_tokens = Append(st.plain_tokens, token)]
    ELSE [st EXCEPT !.plain_tokens = Append(st.plain_tokens, token)]

\* the loop variables after the first n tokens
RECURSIVE ParseLoop(_, _)
ParseLoop(tokens, n) ==
    IF n = 0 THEN ParseStart
    ELSE ParseStep(ParseLoop(tokens, n - 1), tokens[n])

\* _parse_query(raw) -> (plain, filters)
ParseQuery(raw) ==
    LET tokens == Split(raw)
        st     == ParseLoop(tokens, Len(tokens))
    IN  [plain |-> Join(st.plain_tokens, <<" ">>), filters |-> st.filters]

-----------------------------------------------------------------------------
(* The store: db_init.py SCHEMA, and the SQL statements the code runs.     *)

\* SQL NULL (Python None): a one-element sequence that is no text
NULL == <<"NULL">>

\* the printable ASCII characters the texts of the model use, in code order:
\* the BINARY collation compares texts by these codes
Ascii == <<" ","!","\"","#","$","%","&","(",")","*","+",",","-",".","/",
          "0","1","2","3","4","5","6","7","8","9",":",";","<","=",">","?",
          "@","A","B","C","D","E","F","G","H","I","J","K","L","M","N","O",
          "P","Q","R","S","T","U","V","W","X","Y","Z","[","\\","]","^","_",
          "a","b","c","d","e","f","g","h","i","j","k","l","m","n","o",
          "p","q","r","s","t","u","v","w","x","y","z","{","|","}","~">>

CharCode(c) ==
    IF c \in {"\t", "\n", "\r"} THEN 0
    ELSE CHOOSE i \in DOMAIN Ascii : Ascii[i] = c

\* a < b in the BINARY collation; NULL sorts before every text
RECURSIVE TextLess(_, _)
TextLess(a, b) ==
    IF a = NULL THEN b # NULL
    ELSE IF b = NULL THEN FALSE
    ELSE IF b = <<>> THEN FALSE
    ELSE IF a = <<>> THEN TRUE
    ELSE IF a[1] = b[1] THEN TextLess(Tail(a), Tail(b))
    ELSE CharCode(a[1]) < CharCode(b[1])

\* the columns of commands_fts, in the order of CREATE VIRTUAL TABLE
FtsColumns == <<"title", "command", "description", "tags", "category", "subcategory">>

\* the index row the triggers write for a row of commands
FtsRow(id, row) ==
    [rowid |-> id,
     cols  |-> [c \in Range(FtsColumns) |-> row[c]]]

\* trigger commands_ai: AFTER INSERT, index the new row
TriggerAI(fts, id, new) == fts (+) SetToBag({FtsRow(id, new)})

\* trigger commands_ad: AFTER DELETE, the delete command with the old values
TriggerAD(fts, id, old) == fts (-) SetToBag({FtsRow(id, old)})

\* trigger commands_au: AFTER UPDATE, delete the old values, index the new
TriggerAUKeepsOld(fts, id, old, new) == TriggerAI(fts, id, new)

TriggerAU(fts, id, old, new) == TriggerAI(TriggerAD(fts, id, old), id, new)

\* the store as one value
Db == [commands |-> commands, fts |-> commands_fts, seq |-> seq, fts_ok |-> fts_ok]

\* the columns declared NOT NULL that an INSERT or UPDATE of the code sets
NotNullColumns == {"category", "title", "command"}

\* INSERT INTO commands(category,subcategory,title,command,description,tags,
\* is_favorite) VALUES (...) at time t: the new store and the rowid, or an
\* IntegrityError that leaves the store as it was
SqlInsert(db, v, t) ==
    IF \E c \in NotNullColumns : v[c] = NULL
    THEN [raised |-> TRUE, db |-> db, lastrowid |-> 0]
    ELSE LET id  == db.seq + 1
             row == [category |-> v.category, subcategory |-> v.subcategory,
                     title |-> v.title, command |-> v.command,
                     description |-> v.description, tags |-> v.tags,
                     is_favorite |-> v.is_favorite,
                     created_at |-> t, updated_at |-> t]
         IN  [raised |-> FALSE, lastrowid |-> id,
              db |-> [db EXCEPT
                        !.commands = Put(db.commands, id, row),
                        !.seq = id,
                        !.fts = IF db.fts_ok THEN TriggerAI(@, id, row) ELSE @]]

\* UPDATE commands SET <row> WHERE id = ?: no row matches an absent id
SqlUpdate(db, id, new) ==
    IF id \notin DOMAIN db.commands THEN db
    ELSE [db EXCEPT
            !.commands = Put(db.commands, id, new),
            !.fts = IF db.fts_ok THEN TriggerAU(@, id, db.commands[id], new) ELSE @]

\* a DELETE on a table whose id is no AUTOINCREMENT column: the next rowid
\* is one more than the largest left in the table
SqlDeleteFreesRowid(db, id) ==
    LET left == (DOMAIN db.commands) \ {id}
    IN  [db EXCEPT
           !.commands = [x \in left |-> db.commands[x]],
           !.seq = IF left = {} THEN 0 ELSE CHOOSE m \in left : \A x \in left : x <= m,
           !.fts = IF db.fts_ok /\ id \in DOMAIN db.commands
                   THEN TriggerAD(@, id, db.commands[id]) ELSE @]

\* DELETE FROM commands WHERE id = ?: sqlite_sequence keeps its value
SqlDelete(db, id) ==
    IF id \notin DOMAIN db.commands THEN db
    ELSE [db EXCEPT
            !.commands = [x \in (DOMAIN db.commands) \ {id} |-> db.commands[x]],
            !.fts = IF db.fts_ok THEN TriggerAD(@, id, db.commands[id]) ELSE @]

\* Python truthiness of a value handed over as is_favorite: a number (the
\* booleans are the numbers 1 and 0), None or a text
Truthy(x) == IF x \in Int THEN x # 0 ELSE x \notin {NULL, <<>>}

\* manager.py insert_cmd(d)
InsertCmd(db, d, t) ==
    SqlInsert(db, [d EXCEPT !.is_favorite = IF Truthy(d.is_favorite) THEN 1 ELSE 0], t)

\* manager.py update_cmd(cmd_id, d)
UpdateCmd(db, id, d, t) ==
    IF id \notin DOMAIN db.commands THEN db
    ELSE SqlUpdate(db, id,
            [db.commands[id] EXCEPT
               !.category = d.category, !.subcategory = d.subcategory,
               !.title = d.title, !.command = d.command,
               !.description = d.description, !.tags = d.tags,
               !.is_favorite = IF Truthy(d.is_favorite) THEN 1 ELSE 0,
               !.updated_at = t])

\* manager.py delete_cmd(cmd_id)
DeleteCmd(db, id) == SqlDelete(db, id)

\* an UPDATE commands SET is_favorite=1 WHERE id=?
ToggleFavSetsOnly(db, id) ==
    IF id \notin DOMAIN db.commands THEN db
    ELSE SqlUpdate(db, id, [db.commands[id] EXCEPT !.is_favorite = 1])

\* manager.py toggle_fav(cmd_id): is_favorite flipped, updated_at left alone
ToggleFav(db, id) ==
    IF id \notin DOMAIN db.commands THEN db
    ELSE SqlUpdate(db, id,
            [db.commands[id] EXCEPT
               !.is_favorite = IF @ = 1 THEN 0 ELSE 1])

\* main.py _toggle_favorite(cmd_id): is_favorite flipped, updated_at refreshed
ToggleFavorite(db, id, t) ==
    IF id \notin DOMAIN db.commands THEN db
    ELSE SqlUpdate(db, id,
            [db.commands[id] EXCEPT
               !.is_favorite = IF @ = 1 THEN 0 ELSE 1,
               !.updated_at = t])

-----------------------------------------------------------------------------
(* Search: main.py _search and _fts_ok, manager.py fetch_commands, and the *)
(* SQL they run (LIKE, the FTS5 MATCH of commands_fts, ORDER BY, LIMIT).   *)

\* a LIKE that compares the text between the two % of the pattern as it is
LikeFromCaseSensitive(p, t) == Contains(t, SubSeq(p, 2, Len(p) - 1))

\* text LIKE pattern, text not NULL: % matches any run of characters, _ any
\* one character, every other character itself without regard to ASCII case
RECURSIVE LikeFrom(_, _)
LikeFrom(p, t) ==
    IF p = <<>> THEN t = <<>>
    ELSE IF p[1] = "%"
         THEN LikeFrom(Tail(p), t) \/ (t # <<>> /\ LikeFrom(p, Tail(t)))
         ELSE /\ t # <<>>
              /\ (p[1] = "_" \/ LowerChar(p[1]) = LowerChar(t[1]))
              /\ LikeFrom(Tail(p), Tail(t))

\* column LIKE ?: NULL LIKE pattern is NULL, which WHERE takes as false
Like(t, p) == t # NULL /\ LikeFrom(p, t)

\* f"%{v}%"
Wrapped(v) == <<"%">> \o v \o <<"%">>

\* the characters the unicode61 tokenizer keeps in a token (ASCII texts)
IsTokenChar(c) ==
    \/ \E i \in DOMAIN UpperLetters : UpperLetters[i] = c
    \/ \E i \in DOMAIN LowerLetters : LowerLetters[i] = c
    \/ \E i \in DOMAIN Digits : Digits[i] = c

\* the unicode61 tokenizer: the maximal runs of token characters, case folded
RECURSIVE TokenizeAcc(_, _, _, _)
TokenizeAcc(s, i, cur, acc) ==
    IF i > Len(s)
    THEN IF cur = <<>> THEN acc ELSE Append(acc, cur)
    ELSE IF IsTokenChar(s[i])
         THEN TokenizeAcc(s, i + 1, Append(cur, LowerChar(s[i])), acc)
         ELSE TokenizeAcc(s, i + 1, <<>>, IF cur = <<>> THEN acc ELSE Append(acc, cur))

Tokenize(s) == IF s = NULL THEN <<>> ELSE TokenizeAcc(s, 1, <<>>, <<>>)

\* fts_q = " OR ".join(f'"{t}"' for t in plain.split() if t)
FtsQ(plain) ==
    LET terms == Split(plain)
    IN  Join([i \in DOMAIN terms |-> <<"\"">> \o terms[i] \o <<"\"">>],
             <<" ","O","R"," ">>)

\* the FTS5 query lexer on q from place i: whether a string opened by a
\* double quote reaches the end of q unclosed (two double quotes inside a
\* string stand for one and do not close it), which makes MATCH raise
\* sqlite3.OperationalError: unterminated string
RECURSIVE Unterminated(_, _, _)
Unterminated(q, i, in_string) ==
    IF i > Len(q) THEN in_string
    ELSE IF ~in_string
         THEN Unterminated(q, i + 1, q[i] = "\"")
         ELSE IF q[i] # "\"" THEN Unterminated(q, i + 1, TRUE)
              ELSE IF i < Len(q) /\ q[i + 1] = "\""
                   THEN Unterminated(q, i + 2, TRUE)
                   ELSE Unterminated(q, i + 1, FALSE)

\* the phrases of an FTS5 query made of quoted strings joined by OR, each
\* string holding no double quote
RECURSIVE PhrasesFrom(_, _, _)
PhrasesFrom(q, i, acc) ==
    IF i > Len(q) THEN acc
    ELSE LET rest  == Drop(q, i + 1)
             close == FirstIndex(rest, "\"")
         IN  PhrasesFrom(q, i + close + 5, Append(acc, SubSeq(rest, 1, close - 1)))

FtsPhrases(q) == PhrasesFrom(q, 1, <<>>)

\* a phrase matches a column when its tokens occur there one after the
\* other; a phrase without tokens matches nothing
PhraseMatches(phrase, text) ==
    LET want == Tokenize(phrase)
        have == Tokenize(text)
    IN  want # <<>> /\ Contains(have, want)

\* SELECT c.* FROM commands_fts f JOIN commands c ON c.id = f.rowid
\* WHERE commands_fts MATCH fts_q: the ids of the joined rows
FtsMatch(db, q) ==
    { r.rowid : r \in
        { x \in BagToSet(db.fts) :
            /\ x.rowid \in DOMAIN db.commands
            /\ \E k \in DOMAIN FtsPhrases(q), c \in Range(FtsColumns) :
                  PhraseMatches(FtsPhrases(q)[k], x.cols[c]) } }

\* LIMIT 50
LIMIT == 50

\* a query without LIMIT
TakeAll(s, n) == s

\* the first n elements of s
Take(s, n) == SubSeq(s, 1, IF Len(s) < n THEN Len(s) ELSE n)

\* the places at which row m can enter the sorted arrangement s: after the
\* last row that sorts before m and before the first row m sorts before
Places(s, m, before) ==
    LET lo == Cardinality({ j \in DOMAIN s : <<s[j], m>> \in before })
        hi == Len(s) - Cardinality({ j \in DOMAIN s : <<m, s[j]>> \in before })
    IN  lo..hi

\* the orders in which ORDER BY can return the rows ids, before being the
\* pairs (a, b) with a sorting before b: all arrangements in which no row
\* comes after one it sorts before, built by entering one row into the
\* arrangements of the others; rows that sort alike come in any order
RECURSIVE Sorted(_, _)
Sorted(ids, before) ==
    IF ids = {} THEN { <<>> }
    ELSE LET m == CHOOSE x \in ids : TRUE
         IN  UNION { { SubSeq(s, 1, i) \o <<m>> \o SubSeq(s, i + 1, Len(s)) :
                         i \in Places(s, m, before) } :
                     s \in Sorted(ids \ {m}, before) }

\* an ORDER BY c.is_favorite DESC alone
FtsBeforeIgnoresRank(rows, rank, a, b) == rows[a].is_favorite > rows[b].is_favorite

\* an ORDER BY rank alone
FtsBeforeRankOnly(rows, rank, a, b) == rank[a] < rank[b]

\* ORDER BY c.is_favorite DESC, rank: rank[id] is the place the bm25 score
\* of the index gives the row among the matches, a smaller place first
FtsBefore(rows, rank, a, b) ==
    \/ rows[a].is_favorite > rows[b].is_favorite
    \/ /\ rows[a].is_favorite = rows[b].is_favorite
       /\ rank[a] < rank[b]

\* the places the scores of the index can give the rows ids: the model
\* leaves bm25 open, every strict ranking is possible
Rankings(ids) ==
    { r \in [ids -> 1..Cardinality(ids)] : \A a, b \in ids : a # b => r[a] # r[b] }

\* an ORDER BY is_favorite ASC, category ASC, subcategory ASC, title ASC
FinalBeforeFavoritesLast(rows, a, b) ==
    \/ rows[a].is_favorite < rows[b].is_favorite
    \/ /\ rows[a].is_favorite = rows[b].is_favorite
       /\ \/ TextLess(rows[a].category, rows[b].category)
          \/ /\ rows[a].category = rows[b].category
             /\ \/ TextLess(rows[a].subcategory, rows[b].subcategory)
                \/ /\ rows[a].subcategory = rows[b].subcategory
                   /\ TextLess(rows[a].title, rows[b].title)

\* ORDER BY is_favorite DESC, category ASC, subcategory ASC, title ASC
FinalBefore(rows, a, b) ==
    \/ rows[a].is_favorite > rows[b].is_favorite
    \/ /\ rows[a].is_favorite = rows[b].is_favorite
       /\ \/ TextLess(rows[a].category, rows[b].category)
          \/ /\ rows[a].category = rows[b].category
             /\ \/ TextLess(rows[a].subcategory, rows[b].subcategory)
                \/ /\ rows[a].subcategory = rows[b].subcategory
                   /\ TextLess(rows[a].title, rows[b].title)

\* the operator filters of _search as a condition on a row
FilterConditions(filters, row) ==
    /\ "favorites" \in DOMAIN filters => row.is_favorite = 1
    /\ "category" \in DOMAIN filters =>
          Like(row.category, Wrapped(filters["category"]))
    /\ "subcategory" \in DOMAIN filters =>
          Like(row.subcategory, Wrapped(filters["subcategory"]))
    /\ "tag" \in DOMAIN filters => Like(row.tags, Wrapped(filters["tag"]))

\* the LIKE fallback: one of the six fields LIKE %plain%
TextCond(plain, row) ==
    \E c \in Range(FtsColumns) : Like(row[c], Wrapped(plain))

\* the try block of _search(query): the indexed search, which raises
\* sqlite3.Error on a query the index cannot read; no rows when the branch
\* is not taken
FtsAttempt(db, query) ==
    LET parsed == ParseQuery(Strip(query))
    IN  IF parsed.plain # <<>> /\ db.fts_ok /\ parsed.filters = EmptyDict
        THEN IF Unterminated(FtsQ(parsed.plain), 1, FALSE)
             THEN [raised |-> TRUE, ids |-> {}]
             ELSE [raised |-> FALSE, ids |-> FtsMatch(db, FtsQ(parsed.plain))]
        ELSE [raised |-> FALSE, ids |-> {}]

\* a handler that lets the error of the try block through
ExceptNothing(attempt) == attempt

\* except sqlite3.Error: pass
ExceptSqliteError(attempt) == [attempt EXCEPT !.raised = FALSE]

\* the rows of the indexed search of _search(query) after the handler
FtsHits(db, query) == ExceptSqliteError(FtsAttempt(db, query)).ids

\* _search(query) when the index ranks its matches by rank: the lists it
\* can return, each with the branch taken and the ranking of the index
SearchRanked(db, query, rank) ==
    LET raw     == Strip(query)
        parsed  == ParseQuery(raw)
        plain   == parsed.plain
        filters == parsed.filters
        hits    == FtsHits(db, query)
        matched == { id \in DOMAIN db.commands :
                       /\ FilterConditions(filters, db.commands[id])
                       /\ plain # <<>> => TextCond(plain, db.commands[id]) }
    IN  IF ExceptSqliteError(FtsAttempt(db, query)).raised
        THEN { [branch |-> "sqlite3.Error", rows |-> <<>>, rank |-> rank] }
        ELSE IF hits # {}
        THEN { [branch |-> "fts", rows |-> Take(s, LIMIT), rank |-> rank] :
                 s \in Sorted(hits, { p \in hits \X hits :
                                       FtsBefore(db.commands, rank, p[1], p[2]) }) }
        ELSE { [branch |-> IF plain # <<>> THEN "like"
                           ELSE IF filters # EmptyDict THEN "filters" ELSE "all",
                rows |-> Take(s, LIMIT), rank |-> rank] :
                 s \in Sorted(matched, { p \in matched \X matched :
                                          FinalBefore(db.commands, p[1], p[2]) }) }

\* _search(query): the lists it can return under any ranking of the matches
Search(db, query) ==
    UNION { SearchRanked(db, query, rank) : rank \in Rankings(FtsHits(db, query)) }

\* manager.py fetch_commands(search, category, favorites_only); None is NULL
FetchCommands(db, search, category, favorites_only) ==
    LET matched == { id \in DOMAIN db.commands :
                       /\ search \notin {NULL, <<>>} =>
                             \E c \in {"title", "command", "description", "tags"} :
                                 Like(db.commands[id][c], Wrapped(search))
                       /\ category \notin {NULL, <<>>} =>
                             db.commands[id].category = category
                       /\ favorites_only => db.commands[id].is_favorite = 1 }
    IN  { [branch |-> "fetch_commands", rows |-> s] :
            s \in Sorted(matched, { p \in matched \X matched :
                                          FinalBefore(db.commands, p[1], p[2]) }) }

-----------------------------------------------------------------------------
(* The manager: manager.py CommandDialog and the VaultManager handlers.    *)

\* CommandDialog._save on the fields as typed: the result dict, or the
\* "Missing fields" warning that leaves result None
DialogSave(f) ==
    LET cat   == Strip(f.category)
        title == Strip(f.title)
        cmd   == Strip(f.command)
    IN  IF cat = <<>> \/ title = <<>> \/ cmd = <<>>
        THEN [valid |-> FALSE, result |-> NULL]
        ELSE [valid  |-> TRUE,
              result |-> [category |-> cat, subcategory |-> Strip(f.subcategory),
                          title |-> title, command |-> cmd,
                          description |-> Strip(f.description), tags |-> Strip(f.tags),
                          is_favorite |-> IF f.is_favorite THEN 1 ELSE 0]]

\* the marker cmd_duplicate appends to the title
CopySuffix == <<" ","(","c","o","p","y",")">>

\* a duplicate that keeps is_favorite of the row
DuplicateOfKeepsFavorite(row) ==
    [row EXCEPT !.title = @ \o CopySuffix]

\* cmd_duplicate: the dict handed to insert_cmd for a row read from the store
DuplicateOf(row) ==
    [row EXCEPT !.title = @ \o CopySuffix, !.is_favorite = 0]

\* entry.get(key, default) on one element of the imported JSON array
EntryGet(entry, key, default) ==
    IF key \in DOMAIN entry THEN entry[key] ELSE default

\* the dict cmd_import builds from one element of the array
ImportDict(entry) ==
    [category    |-> EntryGet(entry, "category", <<"I","m","p","o","r","t","e","d">>),
     subcategory |-> EntryGet(entry, "subcategory", <<>>),
     title       |-> EntryGet(entry, "title", <<"U","n","t","i","t","l","e","d">>),
     command     |-> EntryGet(entry, "command", <<>>),
     description |-> EntryGet(entry, "description", <<>>),
     tags        |-> EntryGet(entry, "tags", <<>>),
     is_favorite |-> EntryGet(entry, "is_favorite", 0)]

\* an element of the array that is no JSON object: entry.get raises
NotAnObject == [not_an_object |-> TRUE]
IsObject(entry) == "not_an_object" \notin DOMAIN entry

\* cmd_import's loop over the first n elements: every element is inserted by
\* insert_cmd; an element whose insert raises is skipped
RECURSIVE ImportLoop(_, _, _, _)
ImportLoop(db, data, n, t) ==
    IF n = 0 THEN [db |-> db, count |-> 0]
    ELSE LET before == ImportLoop(db, data, n - 1, t)
         IN  IF ~IsObject(data[n]) THEN before
             ELSE LET r == InsertCmd(before.db, ImportDict(data[n]), t)
                  IN  IF r.raised THEN before
                      ELSE [db |-> r.db, count |-> before.count + 1]

-----------------------------------------------------------------------------
(* Template expander: main.py _expand_template and template_dialog.py.     *)

\* the character class [a-zA-Z0-9_]
IsNameChar(c) ==
    c \in Range(UpperLetters) \cup Range(LowerLetters) \cup Range(Digits) \cup {"_"}

\* length of the maximal run of name characters of s starting at position i
RECURSIVE NameRun(_, _)
NameRun(s, i) ==
    IF i <= Len(s) /\ IsNameChar(s[i]) THEN 1 + NameRun(s, i + 1) ELSE 0

\* VAR_PATTERN = \{([a-zA-Z0-9_]+)\} tried at position i: the position of the
\* closing brace, or 0 when the pattern does not match there
VarPatternAcceptsEmptyName(s, i) ==
    IF i <= Len(s) /\ s[i] = "{"
    THEN LET n == NameRun(s, i + 1)
         IN  IF i + 1 + n <= Len(s) /\ s[i + 1 + n] = "}"
             THEN i + 1 + n ELSE 0
    ELSE 0

VarPatternMatchEnd(s, i) ==
    IF i <= Len(s) /\ s[i] = "{"
    THEN LET n == NameRun(s, i + 1)
         IN  IF n >= 1 /\ i + 1 + n <= Len(s) /\ s[i + 1 + n] = "}"
             THEN i + 1 + n ELSE 0
    ELSE 0

\* VAR_PATTERN.search(s) is not None
VarSearch(s) == \E i \in DOMAIN s : VarPatternMatchEnd(s, i) # 0

\* VAR_PATTERN.findall(s): the names of the non-overlapping matches, left to right
RECURSIVE FindAllFrom(_, _)
FindAllFrom(s, i) ==
    IF i > Len(s) THEN <<>>
    ELSE LET e == VarPatternMatchEnd(s, i)
         IN  IF e # 0
             THEN <<SubSeq(s, i + 1, e - 1)>> \o FindAllFrom(s, e + 1)
             ELSE FindAllFrom(s, i + 1)

FindAll(s) == FindAllFrom(s, 1)

\* list(names): every occurrence
KeepAll(names, acc) == acc \o names

\* list(dict.fromkeys(names)): first occurrences, in order
RECURSIVE DedupAcc(_, _)
DedupAcc(names, acc) ==
    IF names = <<>> THEN acc
    ELSE DedupAcc(Tail(names),
                  IF names[1] \in Range(acc) THEN acc ELSE Append(acc, names[1]))

VarsFound(command) == DedupAcc(FindAll(command), <<>>)

\* what the user types for a name in the dialog
TypedValue(user, name) ==
    IF name \in DOMAIN user.values THEN user.values[name] ELSE user.other

\* on_ok: one str.replace per entry field, in the order of vars_found
RECURSIVE OnOkFrom(_, _, _)
OnOkFrom(filled, names, user) ==
    IF names = <<>> THEN filled
    ELSE OnOkFrom(Replace(filled, <<"{">> \o names[1] \o <<"}">>,
                          TypedValue(user, names[1])),
                  Tail(names), user)

\* template_dialog.run(command, title): the filled command, or None on cancel
DialogRun(command, user) ==
    LET vars_found == VarsFound(command)
    IN  IF vars_found = <<>>
        THEN [value |-> command, none |-> FALSE, prompted |-> <<>>]
        ELSE IF user.kind = "ok"
             THEN [value |-> OnOkFrom(command, vars_found, user), none |-> FALSE,
                   prompted |-> vars_found]
             ELSE [value |-> <<>>, none |-> TRUE, prompted |-> vars_found]

\* print(filled, end="") on the dialog's stdout, a text stream of the
\* platform the plugin runs on (Windows): "\n" is written as "\r\n"
RECURSIVE WriteText(_)
WriteText(s) ==
    IF s = <<>> THEN <<>>
    ELSE IF s[1] = "\n" THEN <<"\r", "\n">> \o WriteText(Tail(s))
    ELSE <<s[1]>> \o WriteText(Tail(s))

\* result.stdout under text=True: universal newlines, "\r\n" and "\r" read as "\n"
RECURSIVE ReadText(_)
ReadText(s) ==
    IF s = <<>> THEN <<>>
    ELSE IF s[1] = "\r"
         THEN <<"\n">> \o ReadText(IF Len(s) >= 2 /\ s[2] = "\n"
                                   THEN Drop(s, 3) ELSE Tail(s))
         ELSE <<s[1]>> \o ReadText(Tail(s))

\* template_dialog.py __main__ run as a subprocess by subprocess.run(...,
\* capture_output=True, text=True, timeout=120)
DialogProcess(command, user) ==
    CASE user.kind = "unlaunchable" ->
            [raised |-> "FileNotFoundError", returncode |-> 1, stdout |-> <<>>,
             prompted |-> <<>>]
      [] user.kind = "crash" ->
            [raised |-> "none", returncode |-> 1, stdout |-> <<>>,
             prompted |-> <<>>]
      [] user.kind = "timeout" ->
            [raised |-> "TimeoutExpired", returncode |-> 1, stdout |-> <<>>,
             prompted |-> VarsFound(command)]
      [] OTHER ->
            LET filled == DialogRun(command, user)
            IN  IF filled.none
                THEN [raised |-> "none", returncode |-> 1, stdout |-> <<>>,
                      prompted |-> filled.prompted]
                ELSE [raised |-> "none", returncode |-> 0,
                      stdout |-> ReadText(WriteText(filled.value)),
                      prompted |-> filled.prompted]

\* _expand_template(command, title)
ExpandTemplateIgnoresReturnCode(command, user) ==
    IF ~VarSearch(command)
    THEN [result |-> command, launched |-> FALSE, prompted |-> <<>>]
    ELSE LET p == DialogProcess(command, user)
         IN  IF p.raised = "none"
             THEN [result |-> p.stdout, launched |-> TRUE, prompted |-> p.prompted]
             ELSE [result |-> command, launched |-> TRUE, prompted |-> p.prompted]

ExpandTemplate(command, user) ==
    IF ~VarSearch(command)
    THEN [result |-> command, launched |-> FALSE, prompted |-> <<>>]
    ELSE LET p == DialogProcess(command, user)
         IN  IF p.raised = "none" /\ p.returncode = 0 /\ p.stdout # <<>>
             THEN [result |-> p.stdout, launched |-> TRUE, prompted |-> p.prompted]
             ELSE [result |-> command, launched |-> TRUE, prompted |-> p.prompted]

-----------------------------------------------------------------------------
(* Operations of the plugin as actions.  Each action draws its arguments    *)
(* from a bounded set, records them in call and the outcome in ret.         *)

\* bound: the number of whitespace-separated tokens of a raw query
MaxTokens == 3

\* the tokens raw queries are built from: operator tokens of every family
\* (short, long and upper-case aliases, with and without a value), an
\* unrecognised key, a value holding a second colon, and plain words
TokenPool == {
    <<"c","a","t",":","C","i","s","c","o">>,
    <<"v","l","a","n">>,
    <<"f","a","v",":">>,
    <<"s","h","o","w">>,
    <<"m","a","c">>,
    <<"c","a","t",":">>,
    <<"C","a","t","e","g","o","r","y",":","N","e","t">>,
    <<"s",":","V","l">>,
    <<"s","u","b",":">>,
    <<"t",":","l","2">>,
    <<"T","A","G",":","c","c","n","a">>,
    <<"F",":","z","z">>,
    <<"x",":","y">>,
    <<"c",":","a",":","b">> }

\* what separates and surrounds the tokens of a raw query
Spacings == { [pad |-> <<>>, sep |-> <<" ">>], [pad |-> <<" ">>, sep |-> <<" ", " ">>] }

TokenSeqs == UNION { [1..k -> TokenPool] : k \in 0..MaxTokens }

RawQueries ==
    { sp.pad \o Join(toks, sp.sep) \o sp.pad :
        toks \in TokenSeqs, sp \in Spacings }

\* ret before the invoked operation has run
Pending == [op |-> "pending"]

StoreUnchanged == UNCHANGED <<commands, commands_fts, seq, fts_ok, now, dialog>>

\* a store that no operation of the specification reads
NoStore ==
    /\ commands = EmptyDict
    /\ commands_fts = EmptyBag
    /\ seq = 0
    /\ fts_ok = TRUE
    /\ now = 0
    /\ dialog = NoDialog

\* _parse_query(raw)
Parse ==
    /\ call.op = "parse"
    /\ ret = Pending
    /\ ret' = ParseQuery(call.raw)
    /\ UNCHANGED call
    /\ StoreUnchanged

InitParse ==
    /\ NoStore
    /\ call \in { [op |-> "parse", raw |-> raw] : raw \in RawQueries }
    /\ ret = Pending

NextParse == Parse

SpecParse == InitParse /\ [][NextParse]_vars

\* the tokens of the queries that repeat and move filters: three aliases of
\* the category family (one value holding a colon), a category operator
\* without a value, one token of each other family, an unrecognised key
\* and two plain words
FilterTokenPool == {
    <<"c","a","t",":","C","i","s","c","o">>,
    <<"C","a","t","e","g","o","r","y",":","N","e","t">>,
    <<"c",":","a",":","b">>,
    <<"c","a","t",":">>,
    <<"s",":","V","l">>,
    <<"t",":","l","2">>,
    <<"f","a","v",":">>,
    <<"x",":","y">>,
    <<"v","l","a","n">>,
    <<"m","a","c">> }

FilterQueries ==
    { sp.pad \o Join(toks, sp.sep) \o sp.pad :
        toks \in UNION { [1..k -> FilterTokenPool] : k \in 0..MaxTokens },
        sp \in Spacings }

InitFilters ==
    /\ NoStore
    /\ call \in { [op |-> "parse", raw |-> raw] : raw \in FilterQueries }
    /\ ret = Pending

NextFilters == Parse

SpecFilters == InitFilters /\ [][NextFilters]_vars

\* bound: the number of pieces a command of the template specification is
\* composed of
MaxPieces == 3

\* the pieces commands are composed of: placeholders, an empty brace pair,
\* a name character, lone braces and a blank
PiecePool == {
    <<"{","a","}">>,
    <<"{","b","}">>,
    <<"{","}">>,
    <<"x">>,
    <<"{">>,
    <<"}">>,
    <<" ">> }

RECURSIVE Concat(_)
Concat(parts) == IF parts = <<>> THEN <<>> ELSE parts[1] \o Concat(Tail(parts))

Commands == { Concat(ps) : ps \in UNION { [1..k -> PiecePool] : k \in 1..MaxPieces } }

\* the names the user is modelled to answer individually, and the values typed
PromptNames == { <<"a">>, <<"b">> }
ValuePool == { <<>>, <<"v">>, <<"{","b","}">>, <<"{","a","}">> }

\* what happens once the dialog is asked for: the user confirms with typed
\* values, cancels (Cancel, Esc or closing the window), lets the 120 s
\* timeout pass, or the dialog cannot be started or dies before showing
UserOutcomes ==
    { [kind |-> "ok", values |-> v, other |-> o] :
        v \in [PromptNames -> ValuePool], o \in { <<>>, <<"v">> } }
    \cup { [kind |-> k, values |-> [n \in PromptNames |-> <<>>], other |-> <<>>] :
        k \in {"cancel", "timeout", "unlaunchable", "crash"} }

\* copy_command's _expand_template(row["command"], title)
Expand ==
    /\ call.op = "expand"
    /\ ret = Pending
    /\ ret' = ExpandTemplate(call.command, call.user)
    /\ UNCHANGED call
    /\ StoreUnchanged

InitExpand ==
    /\ NoStore
    /\ call \in { [op |-> "expand", command |-> c, user |-> u] :
                    c \in Commands, u \in UserOutcomes }
    /\ ret = Pending

NextExpand == Expand

SpecExpand == InitExpand /\ [][NextExpand]_vars

-----------------------------------------------------------------------------
(* The store specification: the manager's handlers, the launcher's         *)
(* favorite toggle and init_db acting on one store.                        *)

\* bound: the highest id the store assigns
MaxId == 2

\* bound: the number of elements of an imported JSON array
MaxImport == 2

\* bound: the seconds that pass on the clock read by datetime('now')
MaxNow == 1

\* the rows init_db inserts: SEED_DATA, cut down to its first row
SEED_DATA == <<
    [category |-> <<"C","i","s","c","o">>, subcategory |-> <<"V","L","A","N">>,
      title |-> <<"S","h","o","w"," ","V","L","A","N"," ","b","r","i","e","f">>,
      command |-> <<"s","h","o","w"," ","v","l","a","n"," ","b","r","i","e","f">>,
      description |-> <<"L","i","s","t"," ","a","l","l"," ","V","L","A","N","s"," ","w","i","t","h"," ","p","o","r","t"," ","a","s","s","i","g","n","m","e","n","t","s">>,
      tags |-> <<"v","l","a","n",",","l","2",",","c","c","n","a">>,
      is_favorite |-> 1] >>

\* what the user types into the fields of CommandDialog: two complete
\* drafts (one with blanks around the category) and drafts whose title is
\* blank, whose command is empty, or whose category is empty
FieldsCisco ==
    [category |-> <<"C","i","s","c","o">>, subcategory |-> <<"V","L","A","N">>,
      title |-> <<"S","h","o","w"," ","V","L","A","N"," ","b","r","i","e","f">>,
      command |-> <<"s","h","o","w"," ","v","l","a","n"," ","b","r","i","e","f">>,
      description |-> <<>>,
      tags |-> <<"l","2">>]
FieldsLinux ==
    [category |-> <<" ","L","i","n","u","x"," ">>, subcategory |-> <<>>,
      title |-> <<"D","i","s","k"," ","u","s","a","g","e">>,
      command |-> <<"d","f"," ","-","h"," ","{","p","a","t","h","}">>,
      description |-> <<>>,
      tags |-> <<>>]

WithFavorite(f, fav) ==
    [category |-> f.category, subcategory |-> f.subcategory, title |-> f.title,
     command |-> f.command, description |-> f.description, tags |-> f.tags,
     is_favorite |-> fav]

DialogInputs ==
    { WithFavorite(f, fav) : f \in {FieldsCisco, FieldsLinux}, fav \in BOOLEAN }
    \cup { WithFavorite([FieldsCisco EXCEPT !.title = <<" ">>], FALSE),
           WithFavorite([FieldsCisco EXCEPT !.command = <<>>], TRUE),
           WithFavorite([FieldsLinux EXCEPT !.category = <<>>], FALSE) }

\* elements of an imported JSON array: a complete object, the empty object,
\* an object whose command is null, and an element that is no object
ImportPool ==
    { [category |-> <<"L","i","n","u","x">>, subcategory |-> <<"D","i","s","k">>,
      title |-> <<"D","i","s","k"," ","u","s","a","g","e">>,
      command |-> <<"d","f"," ","-","h">>,
      description |-> <<>>,
      tags |-> <<"d","i","s","k">>,
      is_favorite |-> 1],
      EmptyDict,
      [title |-> <<"x">>, command |-> NULL],
      NotAnObject }

ImportFiles == UNION { [1..k -> ImportPool] : k \in 1..MaxImport }

\* the ids a selection or a context menu can carry: ids the store assigned
KnownIds == 1..seq

SetDb(db) ==
    /\ commands' = db.commands
    /\ commands_fts' = db.fts
    /\ seq' = db.seq
    /\ fts_ok' = db.fts_ok

\* init_db run on a store that does not exist yet
InitDbFresh ==
    LET RECURSIVE Load(_)
        Load(n) ==
            IF n = 0
            THEN [commands |-> EmptyDict, fts |-> EmptyBag, seq |-> 0, fts_ok |-> TRUE]
            ELSE SqlInsert(Load(n - 1), SEED_DATA[n], 0).db
    IN  Load(Len(SEED_DATA))

\* init_db(drop_existing): remove the file when asked to, create what the
\* schema lacks, insert SEED_DATA
InitDb ==
    \E drop \in BOOLEAN :
        /\ drop \/ seq + Len(SEED_DATA) <= MaxId
        /\ LET RECURSIVE Load(_)
               Load(n) ==
                   IF n = 0
                   THEN IF drop
                        THEN [commands |-> EmptyDict, fts |-> EmptyBag, seq |-> 0,
                              fts_ok |-> TRUE]
                        ELSE Db
                   ELSE SqlInsert(Load(n - 1), SEED_DATA[n], now).db
           IN  SetDb(Load(Len(SEED_DATA)))
        /\ call' = [op |-> "init_db", drop_existing |-> drop]
        /\ ret' = [status |-> "ok"]
        /\ UNCHANGED <<now, dialog>>

\* VaultManager.cmd_add: the dialog, then insert_cmd when it was saved
CmdAdd ==
    \E f \in DialogInputs :
        LET dlg == DialogSave(f)
        IN  /\ seq < MaxId
            /\ call' = [op |-> "cmd_add", fields |-> f]
            /\ IF dlg.valid
               THEN LET r == InsertCmd(Db, dlg.result, now)
                    IN  /\ SetDb(r.db)
                        /\ ret' = [status |-> "ok", id |-> r.lastrowid]
               ELSE /\ ret' = [status |-> "ValidationError"]
                    /\ UNCHANGED <<commands, commands_fts, seq, fts_ok>>
            /\ UNCHANGED <<now, dialog>>

\* VaultManager.cmd_edit on the selected id
CmdEdit ==
    \E id \in KnownIds, f \in DialogInputs :
        LET dlg == DialogSave(f)
        IN  /\ call' = [op |-> "cmd_edit", id |-> id, fields |-> f]
            /\ IF id \notin DOMAIN commands
               THEN /\ ret' = [status |-> "returned"]
                    /\ UNCHANGED <<commands, commands_fts, seq, fts_ok>>
               ELSE IF dlg.valid
               THEN /\ SetDb(UpdateCmd(Db, id, dlg.result, now))
                    /\ ret' = [status |-> "ok"]
               ELSE /\ ret' = [status |-> "ValidationError"]
                    /\ UNCHANGED <<commands, commands_fts, seq, fts_ok>>
            /\ UNCHANGED <<now, dialog>>

\* VaultManager.cmd_duplicate on the selected id
CmdDuplicate ==
    \E id \in KnownIds :
        /\ seq < MaxId
        /\ call' = [op |-> "cmd_duplicate", id |-> id]
        /\ IF id \notin DOMAIN commands
           THEN /\ ret' = [status |-> "TypeError"]
                /\ UNCHANGED <<commands, commands_fts, seq, fts_ok>>
           ELSE LET r == InsertCmd(Db, DuplicateOf(commands[id]), now)
                IN  /\ SetDb(r.db)
                    /\ ret' = [status |-> "ok", id |-> r.lastrowid]
        /\ UNCHANGED <<now, dialog>>

\* VaultManager.cmd_delete on the selected id, the question answered
CmdDelete ==
    \E id \in KnownIds, yes \in BOOLEAN :
        /\ call' = [op |-> "cmd_delete", id |-> id, confirmed |-> yes]
        /\ IF id \notin DOMAIN commands
           THEN /\ ret' = [status |-> "returned"]
                /\ UNCHANGED <<commands, commands_fts, seq, fts_ok>>
           ELSE IF yes
           THEN /\ SetDb(DeleteCmd(Db, id))
                /\ ret' = [status |-> "ok"]
           ELSE /\ ret' = [status |-> "declined"]
                /\ UNCHANGED <<commands, commands_fts, seq, fts_ok>>
        /\ UNCHANGED <<now, dialog>>

\* VaultManager.cmd_fav on the selected id
CmdFav ==
    \E id \in KnownIds :
        /\ call' = [op |-> "cmd_fav", id |-> id]
        /\ SetDb(ToggleFav(Db, id))
        /\ ret' = [status |-> "ok"]
        /\ UNCHANGED <<now, dialog>>

\* CommandVault.toggle_favorite from the launcher's context menu
LauncherToggleFavorite ==
    \E id \in KnownIds :
        /\ call' = [op |-> "toggle_favorite", id |-> id]
        /\ SetDb(ToggleFavorite(Db, id, now))
        /\ ret' = [status |-> "ok"]
        /\ UNCHANGED <<now, dialog>>

\* VaultManager.cmd_import of a file holding a JSON array
CmdImport ==
    \E data \in ImportFiles :
        /\ seq + Len(data) <= MaxId
        /\ call' = [op |-> "cmd_import", data |-> data]
        /\ LET r == ImportLoop(Db, data, Len(data), now)
           IN  /\ SetDb(r.db)
               /\ ret' = [status |-> "ok", count |-> r.count]
        /\ UNCHANGED <<now, dialog>>

\* a second passes between two operations
Tick ==
    /\ now < MaxNow
    /\ now' = now + 1
    /\ call' = [op |-> "sleep"]
    /\ ret' = [status |-> "ok"]
    /\ UNCHANGED <<commands, commands_fts, seq, fts_ok, dialog>>

InitStore ==
    /\ commands = InitDbFresh.commands
    /\ commands_fts = InitDbFresh.fts
    /\ seq = InitDbFresh.seq
    /\ fts_ok = TRUE
    /\ now = 0
    /\ dialog = NoDialog
    /\ call = [op |-> "init_db", drop_existing |-> FALSE]
    /\ ret = [status |-> "ok"]

NextStore ==
    \/ InitDb
    \/ CmdAdd
    \/ CmdEdit
    \/ CmdDuplicate
    \/ CmdDelete
    \/ CmdFav
    \/ LauncherToggleFavorite
    \/ CmdImport

SpecStore == InitStore /\ [][NextStore]_vars

\* the store specification with the clock running
NextClock ==
    \/ NextStore
    \/ Tick

SpecClock == InitStore /\ [][NextClock]_vars

-----------------------------------------------------------------------------
(* The edit specification: cmd_edit of the manager in its two steps, the    *)
(* row read into the dialog and the dialog saved, with the launcher, a      *)
(* process of its own, toggling favorites in between.                       *)

\* cmd_edit up to wait_window: the selected row is read and CommandDialog
\* opens on it
EditOpen ==
    \E id \in KnownIds :
        /\ ~dialog.open
        /\ call' = [op |-> "cmd_edit", id |-> id]
        /\ IF id \in DOMAIN commands
           THEN /\ dialog' = [open |-> TRUE, id |-> id, row |-> commands[id]]
                /\ ret' = [status |-> "dialog"]
           ELSE /\ dialog' = dialog
                /\ ret' = [status |-> "returned"]
        /\ UNCHANGED <<commands, commands_fts, seq, fts_ok, now>>

\* the texts the user leaves in the fields of the open dialog
EditedFields == { FieldsCisco, FieldsLinux, [FieldsCisco EXCEPT !.title = <<" ">>] }

\* Save Command in the open dialog, then update_cmd: the checkbox shows
\* is_favorite of the row read unless the user clicked it; replaced is the
\* is_favorite the UPDATE overwrites
EditSave ==
    \E f \in EditedFields, clicked \in BOOLEAN :
        LET typed == WithFavorite(f, (dialog.row.is_favorite # 0) # clicked)
            dlg   == DialogSave(typed)
        IN  /\ dialog.open
            /\ call' = [op |-> "cmd_edit", id |-> dialog.id, fields |-> typed,
                        clicked |-> clicked, prefill |-> dialog.row]
            /\ IF dlg.valid
               THEN /\ SetDb(UpdateCmd(Db, dialog.id, dlg.result, now))
                    /\ ret' = [status |-> "ok",
                               replaced |-> commands[dialog.id].is_favorite]
                    /\ dialog' = NoDialog
               ELSE /\ ret' = [status |-> "ValidationError"]
                    /\ UNCHANGED <<commands, commands_fts, seq, fts_ok, dialog>>
            /\ UNCHANGED now

\* Cancel or Esc in the open dialog: result stays None, nothing is written
EditCancel ==
    /\ dialog.open
    /\ dialog' = NoDialog
    /\ call' = [op |-> "cmd_edit", id |-> dialog.id]
    /\ ret' = [status |-> "cancelled"]
    /\ UNCHANGED <<commands, commands_fts, seq, fts_ok, now>>

NextEdit ==
    \/ EditOpen
    \/ EditSave
    \/ EditCancel
    \/ LauncherToggleFavorite
    \/ Tick

SpecEdit == InitStore /\ [][NextEdit]_vars

-----------------------------------------------------------------------------
(* The search specification: one search of a store, by the launcher        *)
(* (_search) or by the manager (fetch_commands).                           *)

\* bound: the number of entries of a searched store
MaxRows == 3

\* the entries of the searched stores: vlan as a word of title, command and
\* tags; vlans, with vlan only inside the longer word; no vlan at all; VLAN
\* in upper case in the tags only, subcategory and description NULL; the
\* third has a quoted word in its description
EntryPool == <<
    [category |-> <<"C","i","s","c","o">>, subcategory |-> <<"V","L","A","N">>,
      title |-> <<"S","h","o","w"," ","V","L","A","N"," ","b","r","i","e","f">>,
      command |-> <<"s","h","o","w"," ","v","l","a","n"," ","b","r","i","e","f">>,
      description |-> <<"L","i","s","t"," ","V","L","A","N","s">>,
      tags |-> <<"v","l","a","n",",","l","2",",","c","c","n","a">>],
    [category |-> <<"C","i","s","c","o">>, subcategory |-> <<"T","r","u","n","k">>,
      title |-> <<"A","l","l","o","w","e","d"," ","v","l","a","n","s">>,
      command |-> <<"s","h","o","w"," ","i","n","t"," ","t","r","u","n","k">>,
      description |-> NULL,
      tags |-> <<"t","r","u","n","k">>],
    [category |-> <<"L","i","n","u","x">>, subcategory |-> <<"D","i","s","k">>,
      title |-> <<"D","i","s","k"," ","u","s","a","g","e">>,
      command |-> <<"d","f"," ","-","h">>,
      description |-> <<"t","h","e"," ","\"","d","i","s","k","\""," ","r","e","p","o","r","t">>,
      tags |-> <<"d","i","s","k">>],
    [category |-> <<"C","i","s","c","o">>, subcategory |-> NULL,
      title |-> <<"P","o","r","t","s">>,
      command |-> <<"s","s"," ","-","t","l","n","p">>,
      description |-> NULL,
      tags |-> <<"L","2",",","V","L","A","N">>] >>

\* the stores: up to MaxRows distinct entries of the pool under the ids
\* 1..k, in the order of the pool (no statement of the searches reads or
\* orders by id), each marked favorite or not
Stores ==
    UNION { { [i \in 1..k |->
                 [category |-> EntryPool[pick[i]].category,
                  subcategory |-> EntryPool[pick[i]].subcategory,
                  title |-> EntryPool[pick[i]].title,
                  command |-> EntryPool[pick[i]].command,
                  description |-> EntryPool[pick[i]].description,
                  tags |-> EntryPool[pick[i]].tags,
                  is_favorite |-> fav[i],
                  created_at |-> 0, updated_at |-> 0]] :
              pick \in { f \in [1..k -> DOMAIN EntryPool] :
                           \A i, j \in 1..k : i < j => f[i] < f[j] },
              fav \in [1..k -> {0, 1}] } : k \in 0..MaxRows }

\* the queries typed into the launcher
SearchQueries == {
    <<"v","l","a","n">>,
    <<" ","V","L","A","N"," ">>,
    <<"v","l","a","n","s">>,
    <<"l","a","n">>,
    <<"d","i","s","k">>,
    <<>>,
    <<" ">>,
    <<"c","a","t",":","c","i","s","c","o">>,
    <<"f","a","v",":">>,
    <<"c","a","t",":","c","i","s","c","o"," ","v","l","a","n">>,
    <<"s","h","o","w"," ","v","l","a","n">>,
    <<"t","a","g",":","l","2"," ","f","a","v",":">>,
    <<"s","u","b",":","v","l","a","n">>,
    <<"c",":","c","%","o">>,
    <<"z","z","z">>,
    <<"v","_","a","n">>,
    <<"\"","d","i","s","k">>,
    <<"\"">>,
    <<"c","a","t",":","c","i","s","c","o"," ","v","_","a","n">> }

\* the arguments the manager hands to fetch_commands
FetchArguments ==
    { [op |-> "fetch_commands", search |-> s, category |-> c, favorites_only |-> f] :
        s \in { <<>>, <<"v","l","a","n">> },
        c \in { NULL, <<"C","i","s","c","o">> },
        f \in BOOLEAN }

\* the launcher's query: _search(query)
SearchQuery ==
    /\ call.op = "search"
    /\ ret = Pending
    /\ ret' \in Search(Db, call.query)
    /\ UNCHANGED call
    /\ StoreUnchanged

\* the manager's list refresh: fetch_commands(search, category, favorites_only)
FetchList ==
    /\ call.op = "fetch_commands"
    /\ ret = Pending
    /\ ret' \in FetchCommands(Db, call.search, call.category, call.favorites_only)
    /\ UNCHANGED call
    /\ StoreUnchanged

\* a store written through the triggers when the index exists, and a store
\* whose file holds no commands_fts table
InitSearch ==
    /\ commands \in Stores
    /\ fts_ok \in BOOLEAN
    /\ commands_fts = IF fts_ok
                      THEN SetToBag({ FtsRow(id, commands[id]) : id \in DOMAIN commands })
                      ELSE EmptyBag
    /\ seq = Len(commands)
    /\ now = 0
    /\ dialog = NoDialog
    /\ call \in { [op |-> "search", query |-> q] : q \in SearchQueries }
                \cup FetchArguments
    /\ ret = Pending

NextSearch ==
    \/ SearchQuery
    \/ FetchList

SpecSearch == InitSearch /\ [][NextSearch]_vars

-----------------------------------------------------------------------------
(* The large-store specification: one search by the launcher of a store   *)
(* with about LIMIT entries.                                               *)

\* bound: how many entries more than LIMIT the largest store holds
MaxExcess == 2

\* the decimal digits of a number below 100
TwoDigits(n) == << Digits[(n \div 10) + 1], Digits[(n % 10) + 1] >>

\* which entries of a large store are favorites: none, every third, all
FavoritePatterns == { "none", "thirds", "all" }

\* a store of n entries of one category whose numbered titles run against
\* the ids
LargeStore(n, pattern) ==
    [id \in 1..n |->
        [category |-> <<"C","i","s","c","o">>, subcategory |-> <<"V","L","A","N">>,
         title |-> <<"v","l","a","n"," ">> \o TwoDigits(n - id),
         command |-> <<"s","h","o","w"," ","v","l","a","n">>,
         description |-> NULL,
         tags |-> <<"l","2">>,
         is_favorite |-> IF pattern = "all" \/ (pattern = "thirds" /\ id % 3 = 0)
                         THEN 1 ELSE 0,
         created_at |-> 0, updated_at |-> 0]]

\* the queries typed into the launcher over a large store
LargeStoreQueries == {
    <<"v","l","a","n">>,
    <<"l","a","n">>,
    <<>>,
    <<" ">>,
    <<"c","a","t",":","c","i","s","c","o">>,
    <<"f","a","v",":">>,
    <<"d","i","s","k">> }

\* the rankings of the index tried on a large store: by id, upwards and
\* downwards
LargeStoreRankings(ids) ==
    { [id \in ids |-> id], [id \in ids |-> Cardinality(ids) + 1 - id] }

\* the launcher's query over a large store: _search(query)
SearchLargeStore ==
    /\ call.op = "search"
    /\ ret = Pending
    /\ \E rank \in LargeStoreRankings(DOMAIN commands) :
          ret' \in SearchRanked(Db, call.query, rank)
    /\ UNCHANGED call
    /\ StoreUnchanged

InitCap ==
    /\ \E n \in (LIMIT - 1)..(LIMIT + MaxExcess), pattern \in FavoritePatterns :
          commands = LargeStore(n, pattern)
    /\ fts_ok \in BOOLEAN
    /\ commands_fts = IF fts_ok
                      THEN SetToBag({ FtsRow(id, commands[id]) : id \in DOMAIN commands })
                      ELSE EmptyBag
    /\ seq = Len(commands)
    /\ now = 0
    /\ dialog = NoDialog
    /\ call \in { [op |-> "search", query |-> q] : q \in LargeStoreQueries }
    /\ ret = Pending

NextCap == SearchLargeStore

SpecCap == InitCap /\ [][NextCap]_vars

-----------------------------------------------------------------------------
(* Properties of the query parser (checked under SpecParse).               *)

Parsed == call.op = "parse" /\ ret # Pending

\* the operator families and their aliases, as section 4.1 lists them
CategoryAliases == { <<"c","a","t">>, <<"c">>, <<"c","a","t","e","g","o","r","y">> }
SubcategoryAliases == { <<"s","u","b">>, <<"s">>, <<"s","u","b","c","a","t","e","g","o","r","y">> }
TagAliases == { <<"t","a","g">>, <<"t">> }
FavoritesAliases == { <<"f","a","v">>, <<"f">>, <<"f","a","v","o","r","i","t","e">>, <<"f","a","v","o","r","i","t","e","s">> }
ValueFamilies == {"category", "subcategory", "tag"}

\* key and value of a token key:value, split at its first colon
TokenKeyOf(t) == SubSeq(t, 1, FirstIndex(t, ":") - 1)
TokenValueOf(t) == Drop(t, FirstIndex(t, ":") + 1)

\* the family a token's key names, case-insensitively; "none" otherwise
TokenFamily(t) ==
    IF ":" \notin Range(t) THEN "none"
    ELSE LET k == Lower(TokenKeyOf(t))
         IN  IF k \in CategoryAliases THEN "category"
             ELSE IF k \in SubcategoryAliases THEN "subcategory"
             ELSE IF k \in TagAliases THEN "tag"
             ELSE IF k \in FavoritesAliases THEN "favorites"
             ELSE "none"

\* a category, subcategory or tag operator token with a value
IsValueFilterToken(t) ==
    TokenFamily(t) \in ValueFamilies /\ TokenValueOf(t) # <<>>

\* a category, subcategory or tag operator token without a value
IsEmptyOperatorToken(t) ==
    TokenFamily(t) \in ValueFamilies /\ TokenValueOf(t) = <<>>

Raw_catCisco_vlan == <<"c","a","t",":","C","i","s","c","o"," ","v","l","a","n">>
Raw_fav_show_mac == <<"f","a","v",":"," ","s","h","o","w"," ","m","a","c">>
Raw_cat_vlan == <<"c","a","t",":"," ","v","l","a","n">>

\* C5: every token key:value whose key is (case-insensitively) an alias of
\* the category, subcategory or tag family and whose value is non-empty is
\* absent from plain_text and is stored under its family with its value
\* verbatim, case preserved (the parser's state right after the token holds
\* it, and the returned filters hold the value of the family's last such
\* token); parse("cat:Cisco vlan") = ("vlan", {category: "Cisco"}) and
\* parse("fav: show mac") = ("show mac", {favorites: true}).
C5_ValueFilterConsumedVerbatim ==
    Parsed =>
        LET tokens == Split(call.raw)
        IN  /\ \A i \in DOMAIN tokens :
                 IsValueFilterToken(tokens[i]) =>
                    LET fam == TokenFamily(tokens[i])
                        val == TokenValueOf(tokens[i])
                    IN  /\ tokens[i] \notin Range(Split(ret.plain))
                        /\ fam \in DOMAIN ParseLoop(tokens, i).filters
                        /\ ParseLoop(tokens, i).filters[fam] = val
                        /\ ParseLoop(tokens, i).plain_tokens
                             = ParseLoop(tokens, i - 1).plain_tokens
                        /\ fam \in DOMAIN ret.filters
                        /\ (\A j \in (i + 1)..Len(tokens) :
                               ~(IsValueFilterToken(tokens[j])
                                 /\ TokenFamily(tokens[j]) = fam))
                           => ret.filters[fam] = val
            /\ call.raw = Raw_catCisco_vlan =>
                 /\ ret.plain = <<"v","l","a","n">>
                 /\ ret.filters = [category |-> <<"C","i","s","c","o">>]
            /\ call.raw = Raw_fav_show_mac =>
                 /\ ret.plain = <<"s","h","o","w"," ","m","a","c">>
                 /\ ret.filters = [favorites |-> TRUE]

\* C5 witness: "cat:Cisco vlan" has been parsed into a category filter
C5_Witness ==
    /\ Parsed
    /\ call.raw = Raw_catCisco_vlan
    /\ DOMAIN ret.filters = {"category"}

\* C6: a category, subcategory or tag operator token with an empty value
\* registers no filter and is kept verbatim as a plain-text token at its
\* original position; parse("cat: vlan") = ("cat: vlan", {}).
C6_EmptyOperatorIsPlainText ==
    Parsed =>
        LET tokens == Split(call.raw)
        IN  /\ \A i \in DOMAIN tokens :
                 IsEmptyOperatorToken(tokens[i]) =>
                    LET before == ParseLoop(tokens, i - 1)
                        after  == ParseLoop(tokens, i)
                    IN  /\ after.filters = before.filters
                        /\ after.plain_tokens = Append(before.plain_tokens, tokens[i])
                        /\ Len(Split(ret.plain)) >= Len(after.plain_tokens)
                        /\ Split(ret.plain)[Len(after.plain_tokens)] = tokens[i]
            /\ (\A i \in DOMAIN tokens :
                   TokenFamily(tokens[i]) \in ValueFamilies
                      => TokenValueOf(tokens[i]) = <<>>)
                 => ValueFamilies \cap DOMAIN ret.filters = {}
            /\ call.raw = Raw_cat_vlan =>
                 /\ ret.plain = Raw_cat_vlan
                 /\ ret.filters = EmptyDict

\* C6 witness: "cat: vlan" has been parsed and "cat:" is its first plain token
C6_Witness ==
    /\ Parsed
    /\ call.raw = Raw_cat_vlan
    /\ Split(ret.plain)[1] = <<"c","a","t",":">>

-----------------------------------------------------------------------------
(* Properties of the template expander (checked under SpecExpand).         *)

Expanded == call.op = "expand" /\ ret # Pending

\* a placeholder token {name}, name in [A-Za-z0-9_]+, occupies s[i..j]
IsPlaceholderAt(s, i, j) ==
    /\ i \in DOMAIN s /\ j \in DOMAIN s
    /\ j >= i + 2
    /\ s[i] = "{" /\ s[j] = "}"
    /\ \A k \in (i + 1)..(j - 1) : IsNameChar(s[k])

HasPlaceholder(s) == \E i, j \in DOMAIN s : IsPlaceholderAt(s, i, j)

\* the command with every placeholder token replaced, in one pass over the
\* command, by the value supplied for its name
RECURSIVE SimultaneousSubst(_, _)
SimultaneousSubst(s, user) ==
    IF s = <<>> THEN <<>>
    ELSE IF \E j \in DOMAIN s : IsPlaceholderAt(s, 1, j)
         THEN LET j == CHOOSE j \in DOMAIN s : IsPlaceholderAt(s, 1, j)
              IN  TypedValue(user, SubSeq(s, 2, j - 1))
                    \o SimultaneousSubst(Drop(s, j + 1), user)
         ELSE <<s[1]>> \o SimultaneousSubst(Tail(s), user)

AllValuesEmpty(user) ==
    /\ user.other = <<>>
    /\ \A n \in DOMAIN user.values : user.values[n] = <<>>

Cancelled == [kind |-> "cancel", values |-> [n \in PromptNames |-> <<>>],
              other |-> <<>>]

\* C7: for a confirmed prompt with a fixed mapping of names to values, the
\* expansion is the command with every occurrence of {name} replaced by the
\* one value supplied for that name.
C7_EveryOccurrenceGetsItsValue ==
    (Expanded /\ call.user.kind = "ok" /\ HasPlaceholder(call.command))
        => ret.result = SimultaneousSubst(call.command, call.user)

\* C8: a command that contains no token {name}, name in [A-Za-z0-9_]+
\* (a command holding only "{}" included), is returned unchanged, whatever
\* the user would have done, and the prompt is neither started nor shown;
\* the dialog's own run() returns such a command unchanged as well.
C8_NoPlaceholderPassthrough ==
    (Expanded /\ ~HasPlaceholder(call.command)) =>
        /\ ret.result = call.command
        /\ ~ret.launched
        /\ ret.prompted = <<>>
        /\ DialogRun(call.command, call.user)
             = [value |-> call.command, none |-> FALSE, prompted |-> <<>>]

\* C8 witness: the command "{}" has been expanded for a user ready to confirm
C8_Witness ==
    /\ Expanded
    /\ call.command = <<"{", "}">>
    /\ call.user.kind = "ok"
    /\ ret.result = <<"{", "}">>

\* C9: for every command with placeholders, what expansion returns when the
\* prompt is confirmed with every value empty differs from what it returns
\* for the same command when the prompt is cancelled.
C9_EmptyValuesDistinctFromCancel ==
    (Expanded /\ call.user.kind = "ok" /\ AllValuesEmpty(call.user)
       /\ HasPlaceholder(call.command))
        => ret # ExpandTemplate(call.command, Cancelled)

\* C10: when the prompt is cancelled, closed, times out or cannot be
\* started, expansion returns the original command, placeholders intact.
C10_CancelReturnsOriginal ==
    (Expanded /\ call.user.kind \in {"cancel", "timeout", "unlaunchable", "crash"})
        => ret.result = call.command

\* C10 witness: a command with two placeholders was expanded and the prompt
\* was cancelled after being shown
C10_Witness ==
    /\ Expanded
    /\ call.user.kind = "cancel"
    /\ call.command = <<"{","a","}"," ","{","b","}">>
    /\ ret.prompted = << <<"a">>, <<"b">> >>
    /\ ret.result = call.command

-----------------------------------------------------------------------------
(* Properties of the store (checked under SpecStore).                      *)

\* the index a store with these rows is meant to have: one index row per
\* row of commands, carrying its six indexed columns
IndexOf(rows) == SetToBag({ FtsRow(id, rows[id]) : id \in DOMAIN rows })

\* C3: after any sequence of init_db, insert, update, toggle-favorite,
\* duplicate, import and delete, the text index holds exactly one row per
\* current entry, carrying its current title, command, description, tags,
\* category and subcategory, and no row for a deleted id; a delete that went
\* through leaves neither the table nor the index with an entry for its id.
C3_IndexMirrorsStore ==
    /\ commands_fts = IndexOf(commands)
    /\ \A r \in BagToSet(commands_fts) :
          /\ r.rowid \in DOMAIN commands
          /\ CopiesIn(r, commands_fts) = 1
    /\ (call.op = "cmd_delete" /\ ret.status = "ok") =>
          /\ call.id \notin DOMAIN commands
          /\ \A r \in BagToSet(commands_fts) : r.rowid # call.id

\* C3 witness: id 2 was created, id 1 (the seed row) was updated to another
\* text, and id 2 has just been deleted
C3_Witness ==
    /\ call.op = "cmd_delete" /\ ret.status = "ok" /\ call.id = 2
    /\ DOMAIN commands = {1}
    /\ commands[1].title = <<"D","i","s","k"," ","u","s","a","g","e">>
    /\ BagCardinality(commands_fts) = 1

\* a required field of the typed fields is empty once stripped
MissingRequired(f) ==
    \E c \in {"category", "title", "command"} : \A i \in DOMAIN f[c] : IsSpace(f[c][i])

\* C4: every stored entry has a non-empty category, title and command, and
\* a create or update whose draft has an empty required field ends in a
\* validation error.
C4_RequiredFieldsNonEmpty ==
    /\ \A id \in DOMAIN commands :
          /\ commands[id].category # <<>>
          /\ commands[id].title # <<>>
          /\ commands[id].command # <<>>
    /\ (call.op = "cmd_add" /\ MissingRequired(call.fields))
          => ret.status = "ValidationError"
    /\ (call.op = "cmd_edit" /\ call.id \in DOMAIN commands
          /\ MissingRequired(call.fields))
          => ret.status = "ValidationError"

-----------------------------------------------------------------------------
(* Properties of the search (checked under SpecSearch).                    *)

Vlan == <<"v","l","a","n">>

\* _search has returned for a query with plain text vlan and no filters
SearchedVlan ==
    /\ call.op = "search"
    /\ ret # Pending
    /\ ParseQuery(Strip(call.query)) = [plain |-> Vlan, filters |-> EmptyDict]

\* the ids of a returned list
Returned == Range(ret.rows)

\* the entries in which needle occurs case-insensitively as a substring of
\* one of the six searched fields
SubstringSet(needle) ==
    { id \in DOMAIN commands :
        \E c \in Range(FtsColumns) :
            commands[id][c] # NULL /\ Contains(Lower(commands[id][c]), Lower(needle)) }

\* the entries in which needle occurs case-insensitively as a whole word of
\* one of the six fields: an occurrence with no letter or digit next to it
WordSet(needle) ==
    { id \in DOMAIN commands :
        \E c \in Range(FtsColumns) :
            /\ commands[id][c] # NULL
            /\ LET t == Lower(commands[id][c])
               IN  \E i \in 1..(Len(t) - Len(needle) + 1) :
                      /\ SubSeq(t, i, i + Len(needle) - 1) = Lower(needle)
                      /\ i = 1 \/ ~IsTokenChar(t[i - 1])
                      /\ i + Len(needle) > Len(t) \/ ~IsTokenChar(t[i + Len(needle)]) }

\* C1 as stated: searching plain text vlan with no filters returns exactly
\* the entries in which vlan occurs case-insensitively as a substring of one
\* of title, command, description, tags, category, subcategory.
C1_VlanExactSubstringSet ==
    SearchedVlan => Returned = SubstringSet(Vlan)

\* C1 amended: for a store of at most 50 entries, searching plain text vlan
\* with no filters returns each entry at most once and never an entry
\* without the substring vlan; when the index exists and some entry has vlan
\* as a whole word of one of the six fields, it returns exactly the entries
\* that have it as a whole word, and otherwise exactly the entries that
\* have it as a substring.
C1_VlanWordsElseSubstrings ==
    (SearchedVlan /\ Cardinality(DOMAIN commands) <= LIMIT) =>
        /\ Len(ret.rows) = Cardinality(Returned)
        /\ Returned \subseteq SubstringSet(Vlan)
        /\ Returned = IF fts_ok /\ WordSet(Vlan) # {}
                      THEN WordSet(Vlan)
                      ELSE SubstringSet(Vlan)

\* C1 witness: the indexed search answered and left out an entry that has
\* vlan only inside a longer word
C1_Witness ==
    /\ SearchedVlan
    /\ ret.branch = "fts"
    /\ Returned # {}
    /\ SubstringSet(Vlan) \ Returned # {}

\* a search of the launcher or of the manager has returned its list
Listed == call.op \in {"search", "fetch_commands"} /\ ret # Pending

\* C2: in the list returned by _search, from the indexed search, the
\* substring fallback or the return-all branch, and in the list returned by
\* fetch_commands, no entry that is not a favorite precedes a favorite.
C2_FavoritesFirst ==
    Listed =>
        \A i, j \in DOMAIN ret.rows :
            i < j => ~( commands[ret.rows[i]].is_favorite = 0
                        /\ commands[ret.rows[j]].is_favorite = 1 )

\* C2 witness: the indexed search returned favorites and other entries
C2_Witness ==
    /\ Listed
    /\ ret.branch = "fts"
    /\ \E i, j \in DOMAIN ret.rows :
          /\ commands[ret.rows[i]].is_favorite = 1
          /\ commands[ret.rows[j]].is_favorite = 0

\* the filters _search parsed out of the query of the call
QueryFilters == ParseQuery(Strip(call.query)).filters

\* the plain text _search parsed out of the query of the call
QueryPlain == ParseQuery(Strip(call.query)).plain

\* the column a value filter constrains
FilterColumn(family) ==
    CASE family = "category" -> "category"
      [] family = "subcategory" -> "subcategory"
      [] family = "tag" -> "tags"

\* _search has returned
Searched == call.op = "search" /\ ret # Pending

\* C11: when a category, subcategory or tag filter with value v is active,
\* the corresponding field of every returned entry contains v as a
\* case-insensitive substring, also when v holds the characters % or _.
C11_FilterValueIsSubstring ==
    Searched =>
        \A family \in ValueFamilies \cap DOMAIN QueryFilters :
            \A i \in DOMAIN ret.rows :
                LET field == commands[ret.rows[i]][FilterColumn(family)]
                IN  /\ field # NULL
                    /\ Contains(Lower(field), Lower(QueryFilters[family]))

-----------------------------------------------------------------------------
(* Properties of the search of a large store (checked under SpecCap).      *)

\* C12: for every query and every store, _search returns at most 50
\* entries, on the indexed branch as on the substring, filter and
\* return-all branches.
C12_AtMostFiftyEntries ==
    Searched => Len(ret.rows) <= LIMIT

\* C12 witness: the indexed search of a store of more than 50 matching
\* entries returned 50 of them
C12_Witness ==
    /\ Searched
    /\ ret.branch = "fts"
    /\ Cardinality(DOMAIN commands) > LIMIT
    /\ Len(ret.rows) = LIMIT

\* _search has returned for a query without plain text and without filters
SearchedEverything ==
    /\ Searched
    /\ QueryPlain = <<>>
    /\ QueryFilters = EmptyDict

\* entry a is listed ahead of entry b: a favorite ahead of another entry,
\* then the smaller (category, subcategory, title)
ListedAhead(a, b) ==
    LET ka == <<1 - commands[a].is_favorite, commands[a].category,
                commands[a].subcategory, commands[a].title>>
        kb == <<1 - commands[b].is_favorite, commands[b].category,
                commands[b].subcategory, commands[b].title>>
    IN  \E k \in 1..4 :
           /\ \A j \in 1..(k - 1) : ka[j] = kb[j]
           /\ IF k = 1 THEN ka[k] < kb[k] ELSE TextLess(ka[k], kb[k])

\* C13 as stated: a query with empty plain text and no filters (also a
\* whitespace-only raw query) returns all entries of the store.
C13_EmptyQueryReturnsAll ==
    SearchedEverything => Returned = DOMAIN commands

\* C13 amended: a query with empty plain text and no filters (also a
\* whitespace-only raw query) returns all entries of a store of at most 50
\* entries; of a larger store it returns 50 distinct entries, none of the
\* entries left out being listed ahead of a returned one.
C13_EmptyQueryReturnsAllUpToCap ==
    SearchedEverything =>
        /\ Returned \subseteq DOMAIN commands
        /\ Len(ret.rows) = Cardinality(Returned)
        /\ Len(ret.rows) = IF Cardinality(DOMAIN commands) <= LIMIT
                           THEN Cardinality(DOMAIN commands) ELSE LIMIT
        /\ \A out \in (DOMAIN commands) \ Returned, in \in Returned :
              ~ListedAhead(out, in)

\* C13 witness: a whitespace-only query on a store of more than 50 entries,
\* favorites among them, returned 50
C13_Witness ==
    /\ SearchedEverything
    /\ call.query = <<" ">>
    /\ Cardinality(DOMAIN commands) > LIMIT
    /\ Len(ret.rows) = LIMIT
    /\ \E a, b \in DOMAIN commands : commands[a].is_favorite # commands[b].is_favorite

-----------------------------------------------------------------------------
(* Properties of the index-layer error handling (checked under SpecSearch). *)

\* the indexed search of the query asked for raised, is unavailable or
\* found no row
IndexGaveNothing ==
    \/ ~fts_ok
    \/ FtsAttempt(Db, call.query).raised
    \/ FtsAttempt(Db, call.query).ids = {}

\* C14: an index-layer error during a plain-text search is never raised to
\* the caller: whenever the indexed search raises, is unavailable or yields
\* zero rows, the result returned is the one of the substring fallback over
\* the six fields.
C14_IndexErrorFallsBack ==
    Searched =>
        /\ ret.branch # "sqlite3.Error"
        /\ (QueryPlain # <<>> /\ QueryFilters = EmptyDict /\ IndexGaveNothing) =>
              /\ ret.branch = "like"
              /\ Returned = { id \in DOMAIN commands : TextCond(QueryPlain, commands[id]) }
              /\ (\A i \in DOMAIN QueryPlain : QueryPlain[i] \notin {"%", "_"})
                    => Returned = SubstringSet(QueryPlain)

\* C14 witness: the index exists, the index query of the plain text is
\* malformed, and the search returned an entry through the fallback
C14_Witness ==
    /\ Searched
    /\ fts_ok
    /\ FtsAttempt(Db, call.query).raised
    /\ ret.branch = "like"
    /\ ret.rows # <<>>

-----------------------------------------------------------------------------
(* Properties of the mutation operations (checked under SpecStore).        *)

\* the operations that update, delete or toggle the entry of a given id
OpsOnId == {"cmd_edit", "cmd_delete", "cmd_fav", "toggle_favorite"}

\* C15: update, delete and toggle of an id that is absent from the store
\* fail with a not-found error and change neither the store nor the index.
C15_AbsentIdFailsNotFound ==
    [][ (call'.op \in OpsOnId /\ call'.id \notin DOMAIN commands) =>
            /\ ret'.status = "NotFoundError"
            /\ commands' = commands
            /\ commands_fts' = commands_fts ]_vars


\* the operations that create, duplicate, import and delete entries
OpsAssigningIds == {"cmd_add", "cmd_duplicate", "cmd_import", "cmd_delete"}

\* C16: across create, duplicate, import and delete, an id once assigned is
\* never assigned to a different entry later, also after its entry was
\* deleted, and no operation changes the id of an existing entry: every id
\* in use is at most the highest id assigned so far (seq), which never
\* decreases, a new entry gets an id above it, and an entry that stays in
\* the store stays under its id.
C16_IdsNeverReused ==
    [][ /\ call'.op \in OpsAssigningIds =>
              /\ \A id \in DOMAIN commands : id <= seq
              /\ seq' >= seq
              /\ \A id \in (DOMAIN commands') \ DOMAIN commands : id > seq /\ id <= seq'
              /\ \A id \in (DOMAIN commands') \cap DOMAIN commands :
                    commands'[id] = commands[id]
              /\ IF call'.op = "cmd_delete"
                 THEN /\ DOMAIN commands' \subseteq DOMAIN commands
                      /\ (DOMAIN commands) \ DOMAIN commands' \subseteq {call'.id}
                 ELSE DOMAIN commands \subseteq DOMAIN commands'
        /\ call'.op \in {"cmd_edit", "cmd_fav", "toggle_favorite"} =>
              /\ DOMAIN commands' = DOMAIN commands
              /\ seq' = seq
              /\ \A id \in DOMAIN commands :
                    commands'[id].created_at = commands[id].created_at ]_vars

\* C16 witness: entry 1 was deleted and the entry created afterwards got
\* id 2, not the free id 1
C16_Witness ==
    /\ call.op \in {"cmd_add", "cmd_import"}
    /\ ret.status = "ok"
    /\ DOMAIN commands = {2}
    /\ seq = 2


\* the favorite toggles of the manager and of the launcher
ToggleOps == {"cmd_fav", "toggle_favorite"}

\* the columns a toggle has to leave alone
TextColumns == {"category", "subcategory", "title", "command", "description", "tags"}

\* C17: a favorite toggle of an existing entry flips is_favorite of that
\* entry, changes no other entry and none of the six text fields of the
\* entry; two toggles in a row of one id, by the manager, the launcher or
\* one after the other, restore is_favorite; is_favorite is always 0 or 1.
C17_ToggleFlipsOnlyFavorite ==
    /\ [](\A id \in DOMAIN commands :
            /\ commands[id].is_favorite \in {0, 1}
            /\ \A first, second \in ToggleOps :
                  LET Toggle(op, db) == IF op = "cmd_fav" THEN ToggleFav(db, id)
                                        ELSE ToggleFavorite(db, id, now)
                  IN  Toggle(second, Toggle(first, Db)).commands[id].is_favorite
                         = commands[id].is_favorite)
    /\ [][ (call'.op \in ToggleOps /\ call'.id \in DOMAIN commands) =>
              /\ DOMAIN commands' = DOMAIN commands
              /\ commands'[call'.id].is_favorite = 1 - commands[call'.id].is_favorite
              /\ \A c \in TextColumns : commands'[call'.id][c] = commands[call'.id][c]
              /\ \A id \in (DOMAIN commands) \ {call'.id} : commands'[id] = commands[id] ]_vars

\* C17 witness: the manager has toggled entry 1, a favorite before, while
\* the store holds a second entry that is a favorite
C17_Witness ==
    /\ call.op = "cmd_fav"
    /\ call.id = 1
    /\ DOMAIN commands = {1, 2}
    /\ commands[1].is_favorite = 0
    /\ commands[2].is_favorite = 1


-----------------------------------------------------------------------------
(* Properties of the timestamps (checked under SpecClock).                 *)

\* C18: every successful update and every successful favorite toggle of an
\* entry, by the launcher or by the manager, sets updated_at of the entry
\* to the time of the operation and leaves its created_at as it was.
C18_UpdateAndToggleRefreshUpdatedAt ==
    [][ (/\ call'.op \in {"cmd_edit", "cmd_fav", "toggle_favorite"}
         /\ ret'.status = "ok"
         /\ call'.id \in DOMAIN commands) =>
            /\ commands'[call'.id].updated_at = now
            /\ commands'[call'.id].created_at = commands[call'.id].created_at ]_vars


-----------------------------------------------------------------------------
(* Properties of cmd_duplicate (checked under SpecStore).                  *)

\* C19: duplicate of an existing entry adds exactly one entry, under a
\* fresh id, whose category, subcategory, command, description and tags are
\* those of the original, whose is_favorite is 0 and whose title is the
\* title of the original followed by " (copy)", and leaves the original
\* and every other entry as they were; duplicate of an absent id fails and
\* adds no entry.
C19_DuplicateCopiesEntry ==
    [][ call'.op = "cmd_duplicate" =>
          IF call'.id \in DOMAIN commands
          THEN /\ ret'.status = "ok"
               /\ ret'.id \notin DOMAIN commands
               /\ ret'.id > seq
               /\ DOMAIN commands' = (DOMAIN commands) \cup {ret'.id}
               /\ \A id \in DOMAIN commands : commands'[id] = commands[id]
               /\ \A c \in {"category", "subcategory", "command", "description", "tags"} :
                     commands'[ret'.id][c] = commands[call'.id][c]
               /\ commands'[ret'.id].is_favorite = 0
               /\ commands'[ret'.id].title =
                     commands[call'.id].title \o <<" ", "(", "c", "o", "p", "y", ")">>
          ELSE /\ ret'.status \notin {"ok", "returned"}
               /\ commands' = commands
               /\ commands_fts' = commands_fts
               /\ seq' = seq ]_vars

\* C19 witness: the favorite entry 1 was duplicated as entry 2
C19_Witness ==
    /\ call = [op |-> "cmd_duplicate", id |-> 1]
    /\ ret = [status |-> "ok", id |-> 2]
    /\ commands[1].is_favorite = 1
    /\ commands[2].is_favorite = 0
    /\ commands[2].title = commands[1].title \o <<" ", "(", "c", "o", "p", "y", ")">>


-----------------------------------------------------------------------------
(* Properties of the favorites operator (checked under SpecParse).         *)

\* a token whose key is, case-insensitively, an alias of the favorites family
IsFavoritesToken(t) == TokenFamily(t) = "favorites"

\* the tokens without the favorites tokens that follow a first one
RECURSIVE WithoutRepeatedFavorites(_, _)
WithoutRepeatedFavorites(tokens, seen) ==
    IF tokens = <<>> THEN <<>>
    ELSE IF IsFavoritesToken(Head(tokens))
         THEN IF seen THEN WithoutRepeatedFavorites(Tail(tokens), TRUE)
              ELSE <<Head(tokens)>> \o WithoutRepeatedFavorites(Tail(tokens), TRUE)
         ELSE <<Head(tokens)>> \o WithoutRepeatedFavorites(Tail(tokens), seen)

\* C20: a token whose key is, case-insensitively, one of fav, f, favorite,
\* favorites sets filters.favorites to true whatever follows the colon
\* (nothing included) and adds nothing to plain_text, no such token is a
\* token of plain_text, and a query that repeats such tokens parses to the
\* same result as the query with the first of them only.
C20_FavoritesOperator ==
    Parsed =>
        LET tokens == Split(call.raw)
        IN  /\ \A i \in DOMAIN tokens :
                 IsFavoritesToken(tokens[i]) =>
                    /\ "favorites" \in DOMAIN ParseLoop(tokens, i).filters
                    /\ ParseLoop(tokens, i).filters["favorites"] = TRUE
                    /\ ParseLoop(tokens, i).plain_tokens
                          = ParseLoop(tokens, i - 1).plain_tokens
                    /\ "favorites" \in DOMAIN ret.filters
                    /\ ret.filters["favorites"] = TRUE
                    /\ tokens[i] \notin Range(Split(ret.plain))
            /\ ret = ParseQuery(Join(WithoutRepeatedFavorites(tokens, FALSE), <<" ">>))

\* C20 witness: a query with the favorites operator twice, once without and
\* once with text after the colon, around a plain word
C20_Witness ==
    /\ Parsed
    /\ Split(call.raw) = << <<"f","a","v",":">>, <<"v","l","a","n">>, <<"F",":","z","z">> >>
    /\ ret = [plain |-> <<"v","l","a","n">>, filters |-> [favorites |-> TRUE]]


-----------------------------------------------------------------------------
(* Properties of repeated filters and of plain_text (checked under         *)
(* SpecFilters).                                                            *)

\* the positions of the tokens that set the filter of a family: the tokens
\* under one of its aliases that have a value
FilterPositions(tokens, family) ==
    { i \in DOMAIN tokens :
        IsValueFilterToken(tokens[i]) /\ TokenFamily(tokens[i]) = family }

\* C21: when a raw query holds several filter tokens of one family
\* (category, subcategory or tag, under any of its aliases), the filter of
\* the family holds the value of the last of them, and the filters hold one
\* value per family that has a filter token and none for the others.
C21_LastFilterTokenWins ==
    Parsed =>
        LET tokens == Split(call.raw)
        IN  /\ DOMAIN ret.filters \subseteq ValueFamilies \cup {"favorites"}
            /\ \A family \in ValueFamilies :
                  LET at == FilterPositions(tokens, family)
                  IN  IF at = {} THEN family \notin DOMAIN ret.filters
                      ELSE /\ family \in DOMAIN ret.filters
                           /\ ret.filters[family] =
                                 TokenValueOf(tokens[CHOOSE i \in at : \A j \in at : j <= i])

\* C21 witness: a query with three category tokens under three aliases,
\* parsed into the value of the third
C21_Witness ==
    /\ Parsed
    /\ Split(call.raw) = << <<"c","a","t",":","C","i","s","c","o">>,
                            <<"c",":","a",":","b">>,
                            <<"C","a","t","e","g","o","r","y",":","N","e","t">> >>
    /\ ret.filters = [category |-> <<"N","e","t">>]

\* a token the parser consumes as a filter
IsConsumedToken(t) == IsValueFilterToken(t) \/ IsFavoritesToken(t)

\* the tokens of a sequence that are not consumed, in their order
RECURSIVE NotConsumed(_)
NotConsumed(tokens) ==
    IF tokens = <<>> THEN <<>>
    ELSE IF IsConsumedToken(Head(tokens)) THEN NotConsumed(Tail(tokens))
         ELSE <<Head(tokens)>> \o NotConsumed(Tail(tokens))

\* C22: every whitespace-separated token of the raw query either sets
\* exactly one filter and adds nothing to plain_text, or is appended to the
\* plain tokens and sets no filter; a token without a colon and a token
\* key:value with an unrecognised key are never consumed; plain_text is the
\* tokens that are not consumed, in their original order, joined by single
\* spaces.
C22_PlainTextIsTheUnconsumedTokens ==
    Parsed =>
        LET tokens == Split(call.raw)
        IN  /\ \A i \in DOMAIN tokens :
                  LET before == ParseLoop(tokens, i - 1)
                      after  == ParseLoop(tokens, i)
                  IN  IF after.plain_tokens = before.plain_tokens
                      THEN /\ ":" \in Range(tokens[i])
                           /\ TokenFamily(tokens[i]) # "none"
                           /\ \E family \in DOMAIN after.filters :
                                 /\ DOMAIN after.filters = (DOMAIN before.filters) \cup {family}
                                 /\ \A k \in (DOMAIN before.filters) \ {family} :
                                       after.filters[k] = before.filters[k]
                      ELSE /\ after.plain_tokens = Append(before.plain_tokens, tokens[i])
                           /\ after.filters = before.filters
            /\ \A i \in DOMAIN tokens :
                  (":" \notin Range(tokens[i]) \/ TokenFamily(tokens[i]) = "none")
                     => tokens[i] \in Range(Split(ret.plain))
            /\ ret.plain = Join(NotConsumed(tokens), <<" ">>)

\* C22 witness: a query of an unrecognised key, a filter and a plain word,
\* widely spaced, parsed into the two unconsumed tokens joined by one space
C22_Witness ==
    /\ Parsed
    /\ call.raw = <<" ">> \o <<"x",":","y">> \o <<" "," ">> \o <<"t",":","l","2">>
                     \o <<" "," ">> \o <<"m","a","c">> \o <<" ">>
    /\ ret.plain = <<"x",":","y"," ","m","a","c">>
    /\ ret.filters = [tag |-> <<"l","2">>]


\* the rearrangements of a token sequence that move consumed tokens only:
\* the tokens that are not consumed keep their order
Rearrangements(tokens) ==
    LET n == Len(tokens)
        arranged == { [i \in 1..n |-> tokens[p[i]]] :
                        p \in { f \in [1..n -> 1..n] :
                                  \A i, j \in 1..n : i # j => f[i] # f[j] } }
    IN  { t \in arranged : NotConsumed(t) = NotConsumed(tokens) }

\* every filter family has at most one consumed token in the sequence
EachFamilyAtMostOnce(tokens) ==
    \A family \in ValueFamilies \cup {"favorites"} :
        Cardinality({ i \in DOMAIN tokens :
                        IsConsumedToken(tokens[i]) /\ TokenFamily(tokens[i]) = family }) <= 1

\* C23: for a raw query in which each filter family occurs at most once,
\* moving the filter tokens to any other positions among the plain words,
\* the plain words kept in their order, gives the same filters and the
\* same plain_text (the search reads the query through them only).
C23_FilterPositionIrrelevant ==
    (Parsed /\ EachFamilyAtMostOnce(Split(call.raw))) =>
        \A moved \in Rearrangements(Split(call.raw)) :
            ParseQuery(Join(moved, <<" ">>)) = ret

\* C23 witness: a query of a tag filter, a plain word and the favorites
\* operator, which has six arrangements
C23_Witness ==
    /\ Parsed
    /\ Split(call.raw) = << <<"t",":","l","2">>, <<"v","l","a","n">>, <<"f","a","v",":">> >>
    /\ Cardinality(Rearrangements(Split(call.raw))) = 6
    /\ ret = [plain |-> <<"v","l","a","n">>,
              filters |-> [tag |-> <<"l","2">>, favorites |-> TRUE]]


-----------------------------------------------------------------------------
(* Properties of filters combined with plain text (checked under           *)
(* SpecSearch).                                                             *)

\* the entry satisfies every filter of the query: it is a favorite when
\* favorites is set, and the field of each value filter contains the value
SatisfiesFilters(id) ==
    /\ "favorites" \in DOMAIN QueryFilters => commands[id].is_favorite = 1
    /\ \A family \in ValueFamilies \cap DOMAIN QueryFilters :
          LET field == commands[id][FilterColumn(family)]
          IN  field # NULL /\ Contains(Lower(field), Lower(QueryFilters[family]))

\* C24: the indexed search produces the result only when plain_text is
\* non-empty and no filter (category, subcategory, tag, favorites) is set;
\* when a filter is set together with plain text, the result is exactly the
\* entries that satisfy every filter and contain the whole plain_text,
\* case-insensitively, in at least one of the six fields (stores below the
\* cap).
C24_FiltersAndPlainText ==
    Searched =>
        /\ ret.branch = "fts" => (QueryPlain # <<>> /\ QueryFilters = EmptyDict)
        /\ (QueryPlain # <<>> /\ QueryFilters # EmptyDict) =>
              Returned = { id \in DOMAIN commands :
                             SatisfiesFilters(id) /\ id \in SubstringSet(QueryPlain) }


-----------------------------------------------------------------------------
(* Properties of the order of the result (checked under SpecSearch).       *)

\* entry a has the smaller (category, subcategory, title)
KeyLess(a, b) ==
    LET ka == <<commands[a].category, commands[a].subcategory, commands[a].title>>
        kb == <<commands[b].category, commands[b].subcategory, commands[b].title>>
    IN  \E k \in 1..3 :
           /\ \A j \in 1..(k - 1) : ka[j] = kb[j]
           /\ TextLess(ka[k], kb[k])

\* C25: in a result that does not come from the indexed search, entries of
\* equal favorite status appear in ascending (category, subcategory, title)
\* order; in a result of the indexed search, entries of equal favorite
\* status appear in the order of the index's ranking.
C25_OrderWithinFavoriteStatus ==
    Searched =>
        \A i, j \in DOMAIN ret.rows :
            (i < j /\ commands[ret.rows[i]].is_favorite = commands[ret.rows[j]].is_favorite) =>
                IF ret.branch = "fts"
                THEN ret.rank[ret.rows[i]] < ret.rank[ret.rows[j]]
                ELSE ~KeyLess(ret.rows[j], ret.rows[i])

\* C25 witness: the indexed search returned two entries of equal favorite
\* status against their (category, subcategory, title) order
C25_Witness ==
    /\ Searched
    /\ ret.branch = "fts"
    /\ \E i, j \in DOMAIN ret.rows :
          /\ i < j
          /\ commands[ret.rows[i]].is_favorite = commands[ret.rows[j]].is_favorite
          /\ KeyLess(ret.rows[j], ret.rows[i])


-----------------------------------------------------------------------------
(* Properties of the index query (checked under SpecSearch).               *)

\* C26: the index query built from a plain_text is read by the index as a
\* disjunction of exactly one quoted phrase per whitespace-separated term,
\* each phrase the literal text of its term: no character of a term, a
\* double quote included, ends its phrase early, leaves a string open or
\* adds phrases.
C26_TermsAreLiteralPhrases ==
    (Searched /\ fts_ok /\ QueryPlain # <<>> /\ QueryFilters = EmptyDict) =>
        LET q == FtsQ(QueryPlain)
        IN  /\ ~Unterminated(q, 1, FALSE)
            /\ FtsPhrases(q) = Split(QueryPlain)


-----------------------------------------------------------------------------
(* Properties of the prompt (checked under SpecExpand).                    *)

\* the names of the placeholder tokens of s, each once, in the order of
\* their first tokens; seen holds the names met so far
RECURSIVE FirstAppearances(_, _)
FirstAppearances(s, seen) ==
    IF s = <<>> THEN <<>>
    ELSE IF \E j \in DOMAIN s : IsPlaceholderAt(s, 1, j)
         THEN LET j    == CHOOSE j \in DOMAIN s : IsPlaceholderAt(s, 1, j)
                  name == SubSeq(s, 2, j - 1)
              IN  IF name \in seen
                  THEN FirstAppearances(Drop(s, j + 1), seen)
                  ELSE <<name>> \o FirstAppearances(Drop(s, j + 1), seen \cup {name})
         ELSE FirstAppearances(Tail(s), seen)

\* the dialog came up in front of the user
DialogShown == call.user.kind \in {"ok", "cancel", "timeout"}

\* C27: for a command with placeholders, the prompt that comes up asks for
\* one value per distinct placeholder name, in the order in which the names
\* first appear in the command, however often a name occurs; no name is
\* asked for twice, and a prompt that cannot come up asks for nothing.
C27_OnePromptPerDistinctName ==
    (Expanded /\ HasPlaceholder(call.command)) =>
        /\ ret.launched
        /\ \A i, j \in DOMAIN ret.prompted : i # j => ret.prompted[i] # ret.prompted[j]
        /\ ret.prompted = IF DialogShown
                          THEN FirstAppearances(call.command, {})
                          ELSE <<>>

\* C27 witness: the command {b}{a}{b} was confirmed after one question for
\* b and one for a, in this order
C27_Witness ==
    /\ Expanded
    /\ call.command = <<"{","b","}","{","a","}","{","b","}">>
    /\ call.user.kind = "ok"
    /\ ret.prompted = << <<"b">>, <<"a">> >>

\* a value typed for a placeholder name of the command holds the
\* placeholder token of another name of the command
ValueHoldsOtherPlaceholder ==
    LET names == Range(FirstAppearances(call.command, {}))
    IN  \E n, other \in names :
           /\ n # other
           /\ Contains(TypedValue(call.user, n), <<"{">> \o other \o <<"}">>)

\* C28: expansion is a simultaneous substitution: a value that holds
\* "{other}", other being a placeholder name of the command as well,
\* appears in the result as typed, it is not scanned for placeholders.
C28_ValuesAreNotRescanned ==
    (Expanded /\ call.user.kind = "ok" /\ ValueHoldsOtherPlaceholder) =>
        ret.result = SimultaneousSubst(call.command, call.user)


-----------------------------------------------------------------------------
(* Properties of an edit that overlaps a toggle (checked under SpecEdit).  *)

\* the step saves the open dialog
SavesDialog == dialog.open /\ ~dialog'.open /\ ret'.status = "ok"

\* C29 as stated: when the launcher has committed a favorite toggle of the
\* entry after the manager read it for editing and before the manager
\* saves, is_favorite of the entry after the save still is what the toggle
\* made it.
C29_SaveKeepsConcurrentToggle ==
    [][ (SavesDialog /\ commands[dialog.id].is_favorite # dialog.row.is_favorite) =>
            commands'[dialog.id].is_favorite = commands[dialog.id].is_favorite ]_vars

\* What the save does in the case of C29: it writes the state of the
\* dialog's checkbox, which is is_favorite as read when the dialog opened
\* unless the user clicked it; a toggle the launcher committed in between is
\* overwritten by the value read earlier when the checkbox was left alone.
SaveWritesTheCheckbox ==
    [][ SavesDialog =>
           /\ commands'[dialog.id].is_favorite =
                 IF call'.clicked THEN 1 - dialog.row.is_favorite
                 ELSE dialog.row.is_favorite
           /\ (~call'.clicked /\ commands[dialog.id].is_favorite # dialog.row.is_favorite)
                 => commands'[dialog.id].is_favorite # commands[dialog.id].is_favorite ]_vars

\* the dialog was saved with the checkbox left alone and replaced an
\* is_favorite other than the one it had read: the toggle is lost
ToggleOverwritten ==
    /\ call.op = "cmd_edit"
    /\ ret.status = "ok"
    /\ ~call.clicked
    /\ ret.replaced # call.prefill.is_favorite
    /\ commands[call.id].is_favorite = call.prefill.is_favorite


-----------------------------------------------------------------------------
(* Properties of init_db (checked under SpecStore).                        *)

\* the row holds seed n: the seven columns init_db's INSERT sets
IsSeed(row, n) == \A k \in DOMAIN SEED_DATA[n] : row[k] = SEED_DATA[n][k]

\* the store holds the starter library and nothing else, each seed once
HoldsStarterLibrary ==
    /\ \A id \in DOMAIN commands : \E n \in DOMAIN SEED_DATA : IsSeed(commands[id], n)
    /\ \A n \in DOMAIN SEED_DATA :
          Cardinality({ id \in DOMAIN commands : IsSeed(commands[id], n) }) = 1

\* C30: after init_db returns, the store holds exactly the starter library,
\* each seed entry once, whatever the store held before and whether or not
\* drop_existing was set; and an init_db that follows an init_db leaves the
\* set of entries as it was.
C30_InitDbLeavesExactlyTheSeeds ==
    /\ [](call.op = "init_db" => HoldsStarterLibrary)
    /\ [][ (call.op = "init_db" /\ call'.op = "init_db") =>
              /\ DOMAIN commands' = DOMAIN commands
              /\ \A id \in DOMAIN commands :
                    \A k \in DOMAIN SEED_DATA[1] : commands'[id][k] = commands[id][k] ]_vars

\* init_db without drop_existing ran on a store that held the seed already:
\* the seed is there twice
SeedsTwice ==
    /\ call.op = "init_db"
    /\ ~call.drop_existing
    /\ \E n \in DOMAIN SEED_DATA :
          Cardinality({ id \in DOMAIN commands : IsSeed(commands[id], n) }) = 2

\* init_db with drop_existing: the store holds exactly the starter library
DropLeavesExactlyTheSeeds ==
    (call.op = "init_db" /\ call.drop_existing) =>
        (HoldsStarterLibrary /\ DOMAIN commands = 1..Len(SEED_DATA))

=============================================================================
